---- MODULE Spec2Model ----
(***************************************************************************)
(* Model of the teleprompter engine of src/teleprompter.py: the           *)
(* TeleprompterWindow playback state machine (countdown, scroll ticker,    *)
(* pause lines, end of content), the font and layout caches, and the       *)
(* microphone auto-speed smoother.                                         *)
(*                                                                         *)
(* Number representation.  The program computes with Python floats; the    *)
(* model uses exact integers in fixed units:                               *)
(*   - speeds (speed, _mic_smooth, _mic_target) in 1/SpeedRes px/frame,    *)
(*   - scroll_y and _l_total in 1/YPerPx pixel, with YPerPx = 16667, so    *)
(*     that (eff / 16.667) * dt_ms is the integer eff * dt_ms,             *)
(*   - line_spacing_factor in tenths (the slider value v of v / 10.0).     *)
(* Text is a sequence of one-character strings.  QFontMetrics is an        *)
(* external library: LineSpacing and HorizontalAdvance stand for it as a   *)
(* pure function of (family, size) with a fixed advance per character.     *)
(***************************************************************************)
EXTENDS Integers, Sequences, FiniteSets, TLC

VARIABLES
    text,                 \* self.text
    scroll_y,             \* self.scroll_y               (1/YPerPx px)
    is_playing,           \* self.is_playing
    speed,                \* self.speed                  (1/SpeedRes px/frame)
    font_family,          \* self.font_family
    font_size,            \* self.font_size
    line_spacing_factor,  \* self.line_spacing_factor    (tenths)
    text_align,           \* self.text_align
    width,                \* self.width()
    countdown_secs,       \* self.countdown_secs
    cd_val,               \* self._cd_val                (None or Some(int))
    cd_timer,             \* self._cd_timer.isActive()
    scroll_timer,         \* self._scroll_timer.isActive()
    auto_speed_enabled,   \* self.auto_speed_enabled
    mic_threshold,        \* self.mic_threshold          (1/200, slider value)
    mic_smooth,           \* self._mic_smooth
    mic_target,           \* self._mic_target
    mic_stream,           \* self._mic_stream: None or Some(thr), thr the threshold cb captured
    font_key,             \* self._font_key
    f_fm,                 \* self._f_fm: None or the <<family, size>> the metrics are for
    f_line_h,             \* self._f_line_h
    f_sp_w,               \* self._f_sp_w
    layout_key,           \* self._layout_key
    l_lines,              \* self._l_lines
    l_word_xs,            \* self._l_word_xs
    l_pause,              \* self._l_pause
    l_notes,              \* self._l_notes: function line index -> note text
    l_total,              \* self._l_total               (1/YPerPx px)
    last_fl,              \* self._last_fl
    nw_cur,               \* notes_window._cur: None or Some(note), last set_current
    nw_all,               \* notes_window._all: the note map last passed to set_all
    ev,                   \* history: the last handler run (paintEvent aside) and its outcome;
                          \* for reset the outcome is the PlaybackState it ran in
    cd_start,             \* history: the value the running countdown started with (else 0)
    cd_ticks,             \* history: countdown-timer ticks since it started (else 0)
    skips,                \* history: skip keys pressed since scroll_y was last set to an
                          \* absolute position (0, a pause line's top, the total height)
    auto_ticks,           \* history: scroll ticks run with auto_speed_enabled
    style_ops,            \* history: style changes made (font, spacing, alignment, resize)
    speed_ops,            \* history: speed steps made (_speed_up, _speed_dn)
    p_dist,               \* paintEvent's local dist of the line being drawn (None outside)
    p_alpha,              \* paintEvent's local alpha looked up for it (None before)
    p_geom,               \* paintEvent's inputs to the visible range: None outside, or
                          \* Some([H, ratio (percent), lh, y (scroll_y), n (len(lines))])
    p_range               \* paintEvent's locals <<first_i, last_i>> (None before)

playVars  == <<scroll_y, is_playing, cd_val, cd_timer, scroll_timer, last_fl>>
speedVars == <<speed, auto_speed_enabled, mic_threshold, mic_smooth, mic_target, mic_stream>>
styleVars == <<font_family, font_size, line_spacing_factor, text_align, width>>
fontCache == <<font_key, f_fm, f_line_h, f_sp_w>>
layCache  == <<layout_key, l_lines, l_word_xs, l_pause, l_notes, l_total>>
notesVars == <<nw_cur, nw_all>>
histVars  == <<ev, cd_start, cd_ticks, skips, auto_ticks, style_ops, speed_ops>>
lookupVars == <<p_dist, p_alpha, p_geom, p_range>>
vars == <<text, countdown_secs, playVars, speedVars, styleVars, fontCache, layCache,
          notesVars, histVars, lookupVars>>

\* Optional values: None is the empty tuple, a present value x is <<x>>
None == <<>>
Some(x) == <<x>>

(***************************************************************************)
(* Program constants                                                       *)
(***************************************************************************)
SpeedRes     == 1000    \* model resolution of a speed: units per px/frame
YPerPx       == 16667   \* scroll units per pixel: 16.667 ms frame * SpeedRes
SkipPx       == 80      \* Key_Left / Key_Right skip
Margin       == 40      \* _line_x margin
SpeedStep    == 500     \* 0.5 px/frame
SpeedMin     == 500     \* 0.5 px/frame
SpeedMax     == 20000   \* 20.0 px/frame
DtMin        == 1
DtMax        == 100

\* Bound of the model: at most MaxSkips skip keys (Key_Left, Key_Right) are pressed
\* between two absolute placements of scroll_y
MaxSkips     == 2

\* Bound of the model: at most MaxAutoTicks scroll ticks run in auto-speed mode
MaxAutoTicks == 3

\* Bound of the model: at most MaxStyleOps style changes (font size, family, line
\* spacing, alignment, window width) are made in a run
MaxStyleOps  == 2

\* Bound of the model: at most MaxSpeedOps speed steps (Key_Up, Key_Down, wheel,
\* touch buttons) are made in a run; the speed slider is not counted
MaxSpeedOps  == 2

AlignLeft    == "AlignLeft"
AlignHCenter == "AlignHCenter"
AlignRight   == "AlignRight"

(***************************************************************************)
(* Text helpers: Python str methods and the note regex on char sequences   *)
(***************************************************************************)
Max(a, b) == IF a >= b THEN a ELSE b
Min(a, b) == IF a <= b THEN a ELSE b

IsSpace(c) == c \in {" ", "\t"}

\* _PAUSE_TAG = '[PAUSE]'
PAUSE_TAG == <<"[", "P", "A", "U", "S", "E", "]">>

\* s[i:] for a 1-based i
Tail_(s, i) == SubSeq(s, i, Len(s))

\* str.split(sep): the pieces between occurrences of the character sep
RECURSIVE SplitOn(_, _)
SplitOn(s, sep) ==
    IF \E i \in 1..Len(s) : s[i] = sep
    THEN LET i == CHOOSE k \in 1..Len(s) :
                     s[k] = sep /\ \A m \in 1..(k - 1) : s[m] # sep
         IN  <<SubSeq(s, 1, i - 1)>> \o SplitOn(Tail_(s, i + 1), sep)
    ELSE <<s>>

\* str.strip()
RECURSIVE LStrip(_)
LStrip(s) == IF s # <<>> /\ IsSpace(s[1]) THEN LStrip(Tail(s)) ELSE s
RECURSIVE RStrip(_)
RStrip(s) == IF s # <<>> /\ IsSpace(s[Len(s)]) THEN RStrip(SubSeq(s, 1, Len(s) - 1)) ELSE s
Strip(s) == RStrip(LStrip(s))

\* str.split(): maximal runs of non-whitespace characters
RECURSIVE SplitWords(_)
SplitWords(s) ==
    LET t == LStrip(s) IN
    IF t = <<>> THEN <<>>
    ELSE LET n == IF \E i \in 1..Len(t) : IsSpace(t[i])
                  THEN (CHOOSE k \in 1..Len(t) :
                            IsSpace(t[k]) /\ \A m \in 1..(k - 1) : ~IsSpace(t[m])) - 1
                  ELSE Len(t)
         IN  <<SubSeq(t, 1, n)>> \o SplitWords(Tail_(t, n + 1))

\* ' '.join(words)
RECURSIVE JoinSp(_)
JoinSp(ws) ==
    IF ws = <<>> THEN <<>>
    ELSE IF Len(ws) = 1 THEN ws[1]
    ELSE ws[1] \o <<" ">> \o JoinSp(Tail(ws))

\* _NOTE_RE = \[\[(.+?)\]\] anchored at position i: the positions j of the closing
\* "]]" that leave at least one character for the group
NoteCloses(s, i) ==
    IF i + 1 <= Len(s) /\ s[i] = "[" /\ s[i + 1] = "["
    THEN {j \in (i + 3)..(Len(s) - 1) : s[j] = "]" /\ s[j + 1] = "]"}
    ELSE {}

\* _NOTE_RE.search(s): <<i, j>> of the leftmost match with its non-greedy
\* (nearest) closing bracket pair, or <<>> for no match
NoteSearch(s) ==
    LET starts == {i \in 1..Len(s) : NoteCloses(s, i) # {}} IN
    IF starts = {} THEN <<>>
    ELSE LET i == CHOOSE k \in starts : \A m \in starts : k <= m
             j == CHOOSE k \in NoteCloses(s, i) : \A m \in NoteCloses(s, i) : k <= m
         IN  <<i, j>>

\* nm.group(1)
NoteGroup(s, m) == SubSeq(s, m[1] + 2, m[2] - 1)

\* A substitution that removes nothing
NoteSubNone(s) == s

\* _NOTE_RE.sub('', s): every non-overlapping match removed, left to right
RECURSIVE NoteSub(_)
NoteSub(s) ==
    LET m == NoteSearch(s) IN
    IF m = <<>> THEN s
    ELSE SubSeq(s, 1, m[1] - 1) \o NoteSub(Tail_(s, m[2] + 2))

(***************************************************************************)
(* QFontMetrics stand-in: a pure function of fm = <<family, size>>         *)
(***************************************************************************)
\* fm.lineSpacing()
LineSpacing(fm) ==
    IF fm[1] = "Arial" THEN (fm[2] * 3) \div 2 ELSE (fm[2] * 4) \div 3

\* fm.horizontalAdvance(one character)
CharAdvance(fm) ==
    IF fm[1] = "Arial" THEN (fm[2] * 2) \div 3 ELSE (fm[2] * 3) \div 5

\* fm.horizontalAdvance(w)
HorizontalAdvance(fm, w) == CharAdvance(fm) * Len(w)

(***************************************************************************)
(* _line_x and _word_xs                                                    *)
(***************************************************************************)
line_x(line_w, align, win_w) ==
    IF align = AlignHCenter THEN Max(0, (win_w - line_w) \div 2)
    ELSE IF align = AlignRight THEN Max(0, win_w - Margin - line_w)
    ELSE Margin

RECURSIVE SumAdvance(_, _)
SumAdvance(words, fm) ==
    IF words = <<>> THEN 0
    ELSE HorizontalAdvance(fm, words[1]) + SumAdvance(Tail(words), fm)

RECURSIVE WordXsFrom(_, _, _, _)
WordXsFrom(words, fm, sp_w, x) ==
    IF words = <<>> THEN <<>>
    ELSE <<<<words[1], x>>>>
         \o WordXsFrom(Tail(words), fm, sp_w, x + HorizontalAdvance(fm, words[1]) + sp_w)

word_xs(words, fm, sp_w, align, win_w) ==
    LET total == SumAdvance(words, fm) + sp_w * (Len(words) - 1)
        x0    == line_x(total, align, win_w)
    IN  WordXsFrom(words, fm, sp_w, x0)

(***************************************************************************)
(* Font + metric cache: _ensure_font                                       *)
(***************************************************************************)
FontKeyNow == <<font_family, font_size, line_spacing_factor>>

\* lh = max(1, int(fm.lineSpacing() * self.line_spacing_factor))
LineHeight(fm, factor) == Max(1, (LineSpacing(fm) * factor) \div 10)

\* The cache fields after _ensure_font(); lkey is _layout_key, which a rebuild clears
EnsureFont ==
    IF FontKeyNow = font_key
    THEN [key |-> font_key, fm |-> f_fm, line_h |-> f_line_h, sp_w |-> f_sp_w,
          lkey |-> layout_key]
    ELSE LET fm == <<font_family, font_size>> IN
         [key    |-> FontKeyNow,
          fm     |-> fm,
          line_h |-> LineHeight(fm, line_spacing_factor),
          sp_w   |-> CharAdvance(fm),
          lkey   |-> <<>>]

(***************************************************************************)
(* Layout cache: _ensure_layout                                            *)
(***************************************************************************)
\* A fit test that forgets the space before the word
NeededNoSpace(cur_ws, ww, sp_w) == ww

\* needed = ww if not cur_ws else sp_w + ww
Needed(cur_ws, ww, sp_w) == IF cur_ws = <<>> THEN ww ELSE sp_w + ww

\* One step of the greedy fill (the body of "for word in para.split()"):
\* st = [lines, wxs, cur_ws, cur_w]
WrapWord(st, word, fm, sp_w, align, W, mw) ==
    LET ww     == HorizontalAdvance(fm, word)
        needed == Needed(st.cur_ws, ww, sp_w)
    IN  IF st.cur_w + needed <= mw
        THEN [st EXCEPT !.cur_ws = Append(@, word), !.cur_w = @ + needed]
        ELSE IF st.cur_ws # <<>>
             THEN [lines  |-> Append(st.lines, JoinSp(st.cur_ws)),
                   wxs    |-> Append(st.wxs, word_xs(st.cur_ws, fm, sp_w, align, W)),
                   cur_ws |-> <<word>>,
                   cur_w  |-> ww]
             ELSE [st EXCEPT !.cur_ws = <<word>>, !.cur_w = ww]

RECURSIVE WrapWords(_, _, _, _, _, _, _)
WrapWords(st, words, fm, sp_w, align, W, mw) ==
    IF words = <<>> THEN st
    ELSE WrapWords(WrapWord(st, words[1], fm, sp_w, align, W, mw),
                   Tail(words), fm, sp_w, align, W, mw)

\* A wrap that forgets the words still held after the loop
WrapFlushDrop(st, fm, sp_w, align, W) == [lines |-> st.lines, wxs |-> st.wxs]

\* The final flush "if cur_ws: lines.append(...)"
WrapFlush(st, fm, sp_w, align, W) ==
    IF st.cur_ws # <<>>
    THEN [lines |-> Append(st.lines, JoinSp(st.cur_ws)),
          wxs   |-> Append(st.wxs, word_xs(st.cur_ws, fm, sp_w, align, W))]
    ELSE [lines |-> st.lines, wxs |-> st.wxs]

\* A pause test that accepts the token anywhere in the paragraph
IsPauseParaAnywhere(para) ==
    \E i \in 1 .. (Len(para) - Len(PAUSE_TAG) + 1) :
        SubSeq(para, i, i + Len(PAUSE_TAG) - 1) = PAUSE_TAG

\* Whether a stripped paragraph is the pause line: para == _PAUSE_TAG
IsPausePara(para) == para = PAUSE_TAG

\* The three branches on para (lines 364-384): the lines, word offsets and pause
\* set after the paragraph; line indices are 0-based as in the program
\* (l_lines[i + 1] is line i)
LayoutPara(acc, para, fm, sp_w, align, W, mw) ==
    IF para = <<>>
    THEN [lines  |-> Append(acc.lines, <<>>),
          wxs    |-> Append(acc.wxs, <<>>),
          pauses |-> acc.pauses,
          notes  |-> acc.notes]
    ELSE IF IsPausePara(para)
    THEN [lines  |-> Append(acc.lines, PAUSE_TAG),
          wxs    |-> Append(acc.wxs, <<>>),
          pauses |-> acc.pauses \cup {Len(acc.lines)},
          notes  |-> acc.notes]
    ELSE WrapFlush(WrapWords([lines |-> acc.lines, wxs |-> acc.wxs,
                              cur_ws |-> <<>>, cur_w |-> 0],
                             SplitWords(para), fm, sp_w, align, W, mw),
                   fm, sp_w, align, W)
         @@ [pauses |-> acc.pauses, notes |-> acc.notes]

\* A note kept with its surrounding blanks
NoteOfUnstripped(raw, nm) == IF nm # <<>> THEN Some(NoteGroup(raw, nm)) ELSE None

\* note = nm.group(1).strip() if nm else None
NoteOf(raw, nm) == IF nm # <<>> THEN Some(Strip(NoteGroup(raw, nm))) ELSE None

\* A note filed under the index after the paragraph's lines
AddNoteAfter(res, fi, note) ==
    IF note # None THEN [res EXCEPT !.notes = (Len(res.lines) :> note[1]) @@ @] ELSE res

\* if note is not None: notes[fi] = note
AddNote(res, fi, note) ==
    IF note # None THEN [res EXCEPT !.notes = (fi :> note[1]) @@ @] ELSE res

\* The body of "for raw in self.text.split('\n')": acc = [lines, wxs, pauses, notes]
LayoutRaw(acc, raw, fm, sp_w, align, W, mw) ==
    AddNote(LayoutPara(acc, Strip(NoteSub(raw)), fm, sp_w, align, W, mw),
            Len(acc.lines),
            NoteOf(raw, NoteSearch(raw)))

RECURSIVE LayoutRaws(_, _, _, _, _, _, _)
LayoutRaws(acc, raws, fm, sp_w, align, W, mw) ==
    IF raws = <<>> THEN acc
    ELSE LayoutRaws(LayoutRaw(acc, raws[1], fm, sp_w, align, W, mw),
                    Tail(raws), fm, sp_w, align, W, mw)

\* Cache fields whose total height counts the lines only
LayoutFieldsLineCount(acc, lh) ==
    [lines |-> acc.lines, word_xs |-> acc.wxs, pause |-> acc.pauses,
     notes |-> acc.notes, total |-> Len(acc.lines) * YPerPx]

\* Lines 389-394: the cache fields from the loop's result
LayoutFields(acc, lh) ==
    [lines |-> acc.lines, word_xs |-> acc.wxs, pause |-> acc.pauses,
     notes |-> acc.notes, total |-> Len(acc.lines) * lh * YPerPx]

\* The rebuild of _ensure_layout for given inputs (lines 347-394)
BuildLayout(txt, W, fm, sp_w, lh, align) ==
    LayoutFields(LayoutRaws([lines |-> <<>>, wxs |-> <<>>, pauses |-> {}, notes |-> <<>>],
                            SplitOn(txt, "\n"), fm, sp_w, align, W, W - 2 * Margin),
                 lh)

\* key = (self.text, W, self._font_key, self.text_align)
LayoutKeyOf(f) == <<text, width, f.key, text_align>>

\* A cache hit: the fields stay
LayoutKept(f) ==
    [font |-> f, key |-> layout_key, lines |-> l_lines, word_xs |-> l_word_xs,
     pause |-> l_pause, notes |-> l_notes, total |-> l_total, rebuilt |-> FALSE]

\* A rebuild: the fields of b under the new key
LayoutRebuilt(f, b) ==
    [font |-> f, key |-> LayoutKeyOf(f), lines |-> b.lines, word_xs |-> b.word_xs,
     pause |-> b.pause, notes |-> b.notes, total |-> b.total, rebuilt |-> TRUE]

\* An _ensure_layout that never re-wraps
EnsureLayoutNever(f) == LayoutKept(f)

\* An _ensure_layout that re-wraps on every call
EnsureLayoutAlways(f) ==
    LayoutRebuilt(f, BuildLayout(text, width, f.fm, f.sp_w, f.line_h, text_align))

\* _ensure_layout after its _ensure_font() left the font cache as f
EnsureLayoutWith(f) ==
    IF LayoutKeyOf(f) = f.lkey
    THEN LayoutKept(f)
    ELSE LayoutRebuilt(f, BuildLayout(text, width, f.fm, f.sp_w, f.line_h, text_align))

\* The cache fields after _ensure_layout(); rebuilt tells whether it re-wrapped
\* (and so called notes_window.set_all)
EnsureLayout == EnsureLayoutWith(EnsureFont)

\* The assignments of _ensure_layout (and of the _ensure_font it calls) to the caches
ApplyLayout(l) ==
    /\ font_key'   = l.font.key
    /\ f_fm'       = l.font.fm
    /\ f_line_h'   = l.font.line_h
    /\ f_sp_w'     = l.font.sp_w
    /\ layout_key' = l.key
    /\ l_lines'    = l.lines
    /\ l_word_xs'  = l.word_xs
    /\ l_pause'    = l.pause
    /\ l_notes'    = l.notes
    /\ l_total'    = l.total
    /\ nw_all'     = IF l.rebuilt THEN l.notes ELSE nw_all

\* The assignments of a bare _ensure_font() (paintEvent's countdown overlay)
ApplyFont(f) ==
    /\ font_key'   = f.key
    /\ f_fm'       = f.fm
    /\ f_line_h'   = f.line_h
    /\ f_sp_w'     = f.sp_w
    /\ layout_key' = f.lkey
    /\ UNCHANGED <<l_lines, l_word_xs, l_pause, l_notes, l_total, nw_all>>

(***************************************************************************)
(* Playback: toggle_play, reset, countdown                                 *)
(***************************************************************************)
\* The PlaybackState of the spec as the program encodes it (Paused and Idle are
\* both "not playing, no countdown")
PlaybackState ==
    IF cd_val # None THEN "counting" ELSE IF is_playing THEN "playing" ELSE "idle"

Event(op, out) == [op |-> op, out |-> out]

\* _begin_play: is_playing = True; _elapsed.start(); _scroll_timer.start()
BeginPlay ==
    /\ is_playing'   = TRUE
    /\ scroll_timer' = TRUE

\* _do_pause that leaves is_playing as it was
DoPauseStillPlaying ==
    /\ is_playing'   = is_playing
    /\ scroll_timer' = FALSE

\* _do_pause without _scroll_timer.stop()
DoPauseTimerRunning ==
    /\ is_playing'   = FALSE
    /\ scroll_timer' = scroll_timer

\* _do_pause: is_playing = False; _scroll_timer.stop()
DoPause ==
    /\ is_playing'   = FALSE
    /\ scroll_timer' = FALSE

\* _start_countdown without _cd_timer.start()
StartCountdownNoTimer ==
    /\ cd_val'   = Some(countdown_secs)
    /\ cd_timer' = cd_timer

\* _start_countdown: _cd_val = countdown_secs; _cd_timer.start()
StartCountdown ==
    /\ cd_val'   = Some(countdown_secs)
    /\ cd_timer' = TRUE

\* The cancellation that forgets _cd_timer.stop()
CancelCountdownTimerRunning ==
    /\ cd_timer' = cd_timer
    /\ cd_val'   = None

\* toggle_play with a countdown pending: _cd_timer.stop(); _cd_val = None
CancelCountdown ==
    /\ cd_timer' = FALSE
    /\ cd_val'   = None

\* toggle_play (play button, touch button, Space / Return, global hotkey)
TogglePlay ==
    /\ IF cd_val # None
       THEN /\ CancelCountdown
            /\ UNCHANGED <<is_playing, scroll_timer, skips>>
            /\ cd_start' = 0
            /\ cd_ticks' = 0
            /\ ev' = Event("toggle_play", "cancel")
       ELSE IF ~is_playing
       THEN IF countdown_secs > 0
            THEN /\ StartCountdown
                 /\ UNCHANGED <<is_playing, scroll_timer, skips>>
                 /\ cd_start' = countdown_secs
                 /\ cd_ticks' = 0
                 /\ ev' = Event("toggle_play", "countdown")
            ELSE /\ BeginPlay
                 /\ UNCHANGED <<cd_val, cd_timer, cd_start, cd_ticks, skips>>
                 /\ ev' = Event("toggle_play", "play")
       ELSE /\ DoPause
            /\ UNCHANGED <<cd_val, cd_timer, cd_start, cd_ticks, skips>>
            /\ ev' = Event("toggle_play", "pause")
    /\ UNCHANGED <<lookupVars, speed_ops, style_ops, auto_ticks, text, countdown_secs, scroll_y, last_fl, speedVars, styleVars,
                   fontCache, layCache, notesVars>>

\* reset() without the invalidation of the focus-line tracker
ResetFieldsStaleFocus ==
    /\ cd_timer'     = FALSE
    /\ cd_val'       = None
    /\ scroll_y'     = 0
    /\ is_playing'   = FALSE
    /\ last_fl'      = last_fl
    /\ scroll_timer' = FALSE

\* The fields reset() assigns
ResetFields ==
    /\ cd_timer'     = FALSE
    /\ cd_val'       = None
    /\ scroll_y'     = 0
    /\ is_playing'   = FALSE
    /\ last_fl'      = -1
    /\ scroll_timer' = FALSE

\* reset (reset button, touch button, R / Escape, global hotkey)
Reset ==
    /\ ResetFields
    /\ cd_start' = 0
    /\ cd_ticks' = 0
    /\ skips'    = 0
    /\ ev' = Event("reset", PlaybackState)
    /\ UNCHANGED <<lookupVars, speed_ops, style_ops, auto_ticks, text, countdown_secs, speedVars, styleVars, fontCache, layCache,
                   notesVars>>

\* self._cd_val -= 1
CdDecrement(v) == v - 1

\* The countdown expiring one tick early
CdExpiredEarly(v) == v <= 1

\* if self._cd_val <= 0
CdExpired(v) == v <= 0

\* _cd_tick: the countdown timer's timeout (every 1000 ms while it is active).
\* "self._cd_val -= 1" raises TypeError when _cd_val is None.
CdTick ==
    /\ cd_timer
    /\ IF cd_val = None
       THEN /\ ev' = Event("cd_tick", "TypeError")
            /\ UNCHANGED <<cd_val, cd_timer, is_playing, scroll_timer, cd_start, cd_ticks, skips>>
       ELSE IF CdExpired(CdDecrement(cd_val[1]))
       THEN /\ cd_timer' = FALSE
            /\ cd_val'   = None
            /\ BeginPlay
            /\ cd_start' = 0
            /\ cd_ticks' = 0
            /\ ev' = [op |-> "cd_tick", out |-> "play", n |-> cd_start, k |-> cd_ticks + 1]
       ELSE /\ cd_val' = Some(CdDecrement(cd_val[1]))
            /\ cd_ticks' = cd_ticks + 1
            /\ ev' = Event("cd_tick", "count")
            /\ UNCHANGED <<cd_timer, is_playing, scroll_timer, cd_start>>
    /\ UNCHANGED <<lookupVars, speed_ops, style_ops, auto_ticks, text, countdown_secs, scroll_y, last_fl, speedVars, styleVars,
                   fontCache, layCache, notesVars, skips>>

\* The countdown spin box: setattr(prompter, 'countdown_secs', v)
SetCountdownSecs(v) ==
    /\ v # countdown_secs                     \* valueChanged
    /\ countdown_secs' = v
    /\ ev' = Event("set_countdown", "")
    /\ UNCHANGED <<lookupVars, speed_ops, style_ops, auto_ticks, text, playVars, speedVars, styleVars, fontCache, layCache,
                   notesVars, cd_start, cd_ticks, skips>>

(***************************************************************************)
(* The scroll tick: _scroll_step                                           *)
(***************************************************************************)
\* A tick that uses the elapsed time as it is
ClampDtNone(elapsed) == elapsed

\* dt_ms = max(1, min(self._elapsed.restart(), 100))
ClampDt(elapsed) == Max(DtMin, Min(elapsed, DtMax))

\* 0.10 * d, rounded to the model's speed resolution (half away from zero)
Tenth(d) == IF d >= 0 THEN (d + 5) \div 10 ELSE -((-d + 5) \div 10)

\* A smoother that jumps to the target in one tick
SmoothStepWhole(smooth, target) == target

\* self._mic_smooth += 0.10 * (self._mic_target - self._mic_smooth)
SmoothStep(smooth, target) == smooth + Tenth(target - smooth)

\* eff = max(0.0, self._mic_smooth) if self.auto_speed_enabled else self.speed
EffSpeed(auto, smooth, spd) == IF auto THEN Max(0, smooth) ELSE spd

\* An advance of one reference frame per tick, whatever time elapsed
AdvancePerFrame(y, eff, dt) == y + eff * 16

\* The offset assigned from the tick's advance instead of accumulated
AdvanceFromZero(y, eff, dt) == eff * dt

\* self.scroll_y += (eff / 16.667) * dt_ms
Advance(y, eff, dt) == y + eff * dt

\* fl = int(self.scroll_y / lh)
FocusLine(y, lh) == y \div (lh * YPerPx)

\* A snap to the bottom edge of the Pause line
PauseSnapBottom(fl, lh) == (fl + 1) * lh * YPerPx

\* self.scroll_y = float(fl * lh)
PauseSnap(fl, lh) == fl * lh * YPerPx

\* The pause test without the focus-line-changed guard
PauseHitEveryTick(fl, prev_fl, pauses) == fl \in pauses

\* Whether the tick takes the pause branch: the focus line changed and is a pause line
PauseHit(fl, prev_fl, pauses) == fl # prev_fl /\ fl \in pauses

\* if self.scroll_y >= total
AtEnd(y, total) == y >= total

\* The offset left where the advance put it
EndValueUnclamped(y, total) == y

\* self.scroll_y = total
EndValue(y, total) == total

\* self._l_notes.get(fl)
NoteAt(notes, fl) == IF fl \in DOMAIN notes THEN Some(notes[fl]) ELSE None

\* The tick's three endings, given the advanced offset y1 and its focus line fl:
\* s = [y, last_fl, smooth, target, auto, spd, lh, total, pause, notes, cur];
\* the result adds out: "pause" (lines 522-525), "end" (lines 528-531) or "run"
TickEnd(s, smooth1, y1, fl) ==
    IF s.lh > 0 /\ PauseHit(fl, s.last_fl, s.pause)
    THEN [s EXCEPT !.y = PauseSnap(fl, s.lh), !.last_fl = fl, !.smooth = smooth1]
         @@ [out |-> "pause"]
    ELSE [s EXCEPT !.y       = IF AtEnd(y1, s.total) THEN EndValue(y1, s.total) ELSE y1,
                   !.last_fl = IF s.lh > 0 THEN fl ELSE s.last_fl,
                   !.smooth  = smooth1,
                   !.cur     = IF s.lh > 0 /\ fl # s.last_fl
                               THEN NoteAt(s.notes, fl) ELSE s.cur]
         @@ [out |-> IF AtEnd(y1, s.total) THEN "end" ELSE "run"]

\* Lines 510-519 with the smoothed speed known
TickFrom(s, smooth1, y1) == TickEnd(s, smooth1, y1, FocusLine(y1, s.lh))

TickWith(s, smooth1, dt) ==
    TickFrom(s, smooth1, Advance(s.y, EffSpeed(s.auto, smooth1, s.spd), dt))

\* One _scroll_step as a function of the fields s it reads and of dt_ms
Tick(s, dt) ==
    TickWith(s, IF s.auto THEN SmoothStep(s.smooth, s.target) ELSE s.smooth, dt)

\* A tick's result as the fields the next tick reads
TickState(r) ==
    [y |-> r.y, last_fl |-> r.last_fl, smooth |-> r.smooth, target |-> r.target,
     auto |-> r.auto, spd |-> r.spd, lh |-> r.lh, total |-> r.total,
     pause |-> r.pause, notes |-> r.notes, cur |-> r.cur]

\* The fields a tick reads, with the layout l as _ensure_layout() leaves it
TickInputOf(l) ==
    [y |-> scroll_y, last_fl |-> last_fl, smooth |-> mic_smooth, target |-> mic_target,
     auto |-> auto_speed_enabled, spd |-> speed, lh |-> l.font.line_h,
     total |-> l.total, pause |-> l.pause, notes |-> l.notes, cur |-> nw_cur]

TickInput == TickInputOf(EnsureLayout)

\* The assignments of a tick with result r
ApplyTick(r) ==
    /\ scroll_y'     = r.y
    /\ last_fl'      = r.last_fl
    /\ mic_smooth'   = r.smooth
    /\ nw_cur'       = r.cur
    /\ is_playing'   = IF r.out = "run" THEN is_playing ELSE FALSE
    /\ scroll_timer' = (r.out = "run")
    /\ ev'           = Event("scroll_step", r.out)
    /\ skips'        = IF r.out = "run" THEN skips ELSE 0
    /\ auto_ticks'   = IF auto_speed_enabled THEN auto_ticks + 1 ELSE auto_ticks

\* _scroll_step: the scroll timer's timeout; elapsed is _elapsed.restart() in ms
ScrollStep(elapsed) ==
    /\ scroll_timer
    /\ auto_speed_enabled => auto_ticks < MaxAutoTicks
    /\ ApplyTick(Tick(TickInput, ClampDt(elapsed)))
    /\ ApplyLayout(EnsureLayout)
    /\ UNCHANGED <<text, countdown_secs, cd_val, cd_timer, speed, auto_speed_enabled,
                   mic_threshold, mic_target, mic_stream, styleVars, cd_start, cd_ticks, style_ops, speed_ops,
                   lookupVars>>

(***************************************************************************)
(* Speed, skip keys, script and style setters                              *)
(***************************************************************************)
\* self.speed = min(self.speed + 0.5, 20.0)
SpeedUpValue(spd) == Min(spd + SpeedStep, SpeedMax)

\* A speed-down without the floor
SpeedDnValueUnfloored(spd) == spd - SpeedStep

\* self.speed = max(self.speed - 0.5, 0.5)
SpeedDnValue(spd) == Max(spd - SpeedStep, SpeedMin)

\* _speed_up (Key_Up, wheel up, touch "+")
SpeedUp ==
    /\ speed_ops < MaxSpeedOps
    /\ speed_ops' = speed_ops + 1
    /\ speed' = SpeedUpValue(speed)
    /\ ev' = Event("speed_up", "")
    /\ UNCHANGED <<lookupVars, style_ops, auto_ticks, text, countdown_secs, playVars, auto_speed_enabled, mic_threshold,
                   mic_smooth, mic_target, mic_stream, styleVars, fontCache, layCache,
                   notesVars, cd_start, cd_ticks, skips>>

\* _speed_dn (Key_Down, wheel down, touch "-")
SpeedDn ==
    /\ speed_ops < MaxSpeedOps
    /\ speed_ops' = speed_ops + 1
    /\ speed' = SpeedDnValue(speed)
    /\ ev' = Event("speed_dn", "")
    /\ UNCHANGED <<lookupVars, style_ops, auto_ticks, text, countdown_secs, playVars, auto_speed_enabled, mic_threshold,
                   mic_smooth, mic_target, mic_stream, styleVars, fontCache, layCache,
                   notesVars, cd_start, cd_ticks, skips>>

\* The speed slider's value for a requested position: QSlider keeps it within
\* setRange(1, 40)
SliderValue(v) == Max(1, Min(v, 40))

\* ControlPanel._on_speed(v): s = v / 2.0; prompter.speed = s   (slider range 1..40)
OnSpeed(v) ==
    /\ (v * SpeedRes) \div 2 # speed          \* valueChanged
    /\ speed' = (v * SpeedRes) \div 2
    /\ ev' = Event("on_speed", "")
    /\ UNCHANGED <<lookupVars, speed_ops, style_ops, auto_ticks, text, countdown_secs, playVars, auto_speed_enabled, mic_threshold,
                   mic_smooth, mic_target, mic_stream, styleVars, fontCache, layCache,
                   notesVars, cd_start, cd_ticks, skips>>

\* Key_Left: self.scroll_y = max(0.0, self.scroll_y - 80)
SkipLeftValue(y) == Max(0, y - SkipPx * YPerPx)

\* Key_Right: self.scroll_y += 80
SkipRightValue(y) == y + SkipPx * YPerPx

KeyLeft ==
    /\ skips < MaxSkips
    /\ scroll_y' = SkipLeftValue(scroll_y)
    /\ skips' = IF SkipLeftValue(scroll_y) = 0 THEN 0 ELSE skips + 1
    /\ ev' = Event("key_left", "")
    /\ UNCHANGED <<lookupVars, speed_ops, style_ops, auto_ticks, text, countdown_secs, is_playing, cd_val, cd_timer, scroll_timer,
                   last_fl, speedVars, styleVars, fontCache, layCache, notesVars,
                   cd_start, cd_ticks>>

KeyRight ==
    /\ skips < MaxSkips
    /\ scroll_y' = SkipRightValue(scroll_y)
    /\ skips' = skips + 1
    /\ ev' = Event("key_right", "")
    /\ UNCHANGED <<lookupVars, speed_ops, style_ops, auto_ticks, text, countdown_secs, is_playing, cd_val, cd_timer, scroll_timer,
                   last_fl, speedVars, styleVars, fontCache, layCache, notesVars,
                   cd_start, cd_ticks>>

\* set_text without the invalidation of the layout key
SetTextFieldsKeepLayout(t) ==
    /\ text'       = t
    /\ scroll_y'   = 0
    /\ layout_key' = layout_key

\* The fields set_text assigns
SetTextFields(t) ==
    /\ text'       = t
    /\ scroll_y'   = 0
    /\ layout_key' = <<>>

\* set_text: self.text = text; self.scroll_y = 0.0; self._layout_key = ()
SetText(t) ==
    /\ SetTextFields(t)
    /\ skips' = 0
    /\ ev' = [op |-> "set_text", out |-> "", t |-> t]
    /\ UNCHANGED <<lookupVars, speed_ops, style_ops, auto_ticks, countdown_secs, is_playing, cd_val, cd_timer, scroll_timer, last_fl,
                   speedVars, styleVars, fontCache, l_lines, l_word_xs, l_pause,
                   l_notes, l_total, notesVars, cd_start, cd_ticks>>

\* resizeEvent: the window has its new width; self._layout_key = ()
ResizeEvent(w) ==
    /\ style_ops < MaxStyleOps
    /\ w # width
    /\ width'      = w
    /\ layout_key' = <<>>
    /\ ev' = Event("resize", "")
    /\ style_ops' = style_ops + 1
    /\ UNCHANGED <<lookupVars, speed_ops, auto_ticks, text, countdown_secs, playVars, speedVars, font_family, font_size,
                   line_spacing_factor, text_align, fontCache, l_lines, l_word_xs,
                   l_pause, l_notes, l_total, notesVars, cd_start, cd_ticks, skips>>

\* An invalidate_layout that clears the font key only
InvalidateLayoutFontOnly ==
    /\ font_key'   = <<>>
    /\ layout_key' = layout_key
    /\ UNCHANGED <<f_fm, f_line_h, f_sp_w, l_lines, l_word_xs, l_pause, l_notes, l_total>>

\* invalidate_layout: self._font_key = (); self._layout_key = ()
InvalidateLayout ==
    /\ font_key'   = <<>>
    /\ layout_key' = <<>>
    /\ UNCHANGED <<f_fm, f_line_h, f_sp_w, l_lines, l_word_xs, l_pause, l_notes, l_total>>

\* ControlPanel._on_font(v): prompter.font_size = v; invalidate_layout()
OnFont(v) ==
    /\ style_ops < MaxStyleOps
    /\ v # font_size                          \* valueChanged
    /\ font_size' = v
    /\ InvalidateLayout
    /\ ev' = Event("on_font", "")
    /\ style_ops' = style_ops + 1
    /\ UNCHANGED <<lookupVars, speed_ops, auto_ticks, text, countdown_secs, playVars, speedVars, font_family,
                   line_spacing_factor, text_align, width, notesVars, cd_start, cd_ticks, skips>>

\* The font combo box: prompter.font_family = f.family(); invalidate_layout()
OnFontFamily(f) ==
    /\ style_ops < MaxStyleOps
    /\ f # font_family                        \* currentFontChanged
    /\ font_family' = f
    /\ InvalidateLayout
    /\ ev' = Event("on_font_family", "")
    /\ style_ops' = style_ops + 1
    /\ UNCHANGED <<lookupVars, speed_ops, auto_ticks, text, countdown_secs, playVars, speedVars, font_size,
                   line_spacing_factor, text_align, width, notesVars, cd_start, cd_ticks, skips>>

\* ControlPanel._on_ls(v): prompter.line_spacing_factor = v / 10.0; invalidate_layout()
OnLs(v) ==
    /\ style_ops < MaxStyleOps
    /\ v # line_spacing_factor                \* valueChanged
    /\ line_spacing_factor' = v
    /\ InvalidateLayout
    /\ ev' = Event("on_ls", "")
    /\ style_ops' = style_ops + 1
    /\ UNCHANGED <<lookupVars, speed_ops, auto_ticks, text, countdown_secs, playVars, speedVars, font_family, font_size,
                   text_align, width, notesVars, cd_start, cd_ticks, skips>>

\* ControlPanel._on_align(idx): prompter.text_align = ...; prompter._layout_key = ()
OnAlign(a) ==
    /\ style_ops < MaxStyleOps
    /\ a # text_align                         \* currentIndexChanged
    /\ text_align' = a
    /\ layout_key' = <<>>
    /\ ev' = Event("on_align", "")
    /\ style_ops' = style_ops + 1
    /\ UNCHANGED <<lookupVars, speed_ops, auto_ticks, text, countdown_secs, playVars, speedVars, font_family, font_size,
                   line_spacing_factor, width, fontCache, l_lines, l_word_xs, l_pause,
                   l_notes, l_total, notesVars, cd_start, cd_ticks, skips>>

(***************************************************************************)
(* The alpha fade table and the line loop of paintEvent                    *)
(***************************************************************************)
Abs(a) == IF a >= 0 THEN a ELSE -a

LutSize  == 512     \* range(512)
Height   == 560     \* self.height(): the window is resized to 920 x 560
FocusY   == 280     \* focus_y = int(H * self.focus_ratio), focus_ratio 0.50
AlphaCut == 8       \* if alpha < 8: continue

\* A table entry computed with round(d * 0.75) instead of int(d * 0.75): 3d/4 to the
\* nearest integer, a tie (3d % 4 = 2) to the even neighbour as Python's round does
AlphaEntryRounded(d) ==
    LET q == (3 * d) \div 4
        r == (3 * d) % 4 IN
    Max(0, 255 - (IF r = 3 \/ (r = 2 /\ q % 2 = 1) THEN q + 1 ELSE q))

\* One entry of _ALPHA_LUT: max(0, 255 - int(d * 0.75)).  d * 0.75 is exact in
\* floating point for d < 512 and int() truncates, so int(d * 0.75) = (3 * d) \div 4
AlphaEntry(d) == Max(0, 255 - ((3 * d) \div 4))

\* _ALPHA_LUT = [max(0, 255 - int(d * 0.75)) for d in range(512)]
ALPHA_LUT == [d \in 0 .. LutSize - 1 |-> AlphaEntry(d)]

\* An index that wraps around the table instead of stopping at its last entry
LutIndexWrapped(dist) == dist % LutSize

\* min(dist, 511)
LutIndex(dist) == Min(dist, LutSize - 1)

\* alpha = _ALPHA_LUT[min(dist, 511)]
AlphaAt(dist) == ALPHA_LUT[LutIndex(dist)]

\* One pass of the loop body up to the lookup, for a line at distance dist from the
\* focus line: the locals dist and alpha
AlphaLookup ==
    /\ p_dist # None
    /\ p_alpha = None
    /\ p_alpha' = Some(AlphaAt(p_dist[1]))
    /\ UNCHANGED <<p_dist, p_geom, p_range, text, countdown_secs, playVars, speedVars, styleVars, fontCache,
                   layCache, notesVars, histVars>>

\* fm.ascent() of the QFontMetrics stand-in
Ascent(fm) ==
    IF fm[1] = "Arial" THEN (fm[2] * 9) \div 10 ELSE (fm[2] * 4) \div 5

\* A loop body that draws every line of the range
SkippedNever(alpha) == FALSE

\* if alpha < 8: continue
Skipped(alpha) == alpha < AlphaCut

\* start_y = focus_y - int(self.scroll_y)
StartY == FocusY - (scroll_y \div YPerPx)

\* A range that starts two lines below the first line above the top edge
FirstIPastTop(start_y, lh) == Max(0, (-start_y + lh * 2) \div lh)

\* first_i = max(0, (-start_y - lh * 2) // lh)
FirstI(start_y, lh) == Max(0, (-start_y - lh * 2) \div lh)

\* A range end that is not cut at the number of lines
LastIUnclamped(n, first_i, lh) == first_i + (Height + lh * 4) \div lh + 1

\* last_i = min(len(lines), first_i + (H + lh * 4) // lh + 1)
LastIOf(H, n, first_i, lh) == Min(n, first_i + (H + lh * 4) \div lh + 1)

\* last_i in the window of the constructor's size
LastI(n, first_i, lh) == LastIOf(Height, n, first_i, lh)

\* y = start_y + i * lh; ay = y + asc; dist = abs(ay - focus_y)
LineDist(i, l, start_y) ==
    Abs(start_y + i * l.font.line_h + Ascent(l.font.fm) - FocusY)

\* The painter calls of the loop body for line i (0-based) of the layout l: none
\* for a skipped line, the dashed rule and (alpha > 30) the label for a pause line,
\* otherwise the shadow (alpha >> 1) and the text.  Each call carries the line, its
\* alpha and the alpha of the pen it is drawn with.
LineCommands(i, l, start_y) ==
    LET lh    == l.font.line_h
        y     == start_y + i * lh
        dist  == LineDist(i, l, start_y)
        alpha == AlphaAt(dist)
        Cmd(op, pen) == [op |-> op, line |-> i, dist |-> dist, alpha |-> alpha, pen |-> pen]
    IN  IF Skipped(alpha) THEN {}
        ELSE IF i \in l.pause
             THEN {Cmd("drawLine", alpha)}
                  \cup (IF alpha > 30 THEN {Cmd("drawPauseText", alpha)} ELSE {})
             ELSE {Cmd("drawShadow", Min(255, alpha \div 2)), Cmd("drawText", alpha)}

\* range(first_i, last_i) of a paint that reaches the line loop
PaintRange(l, start_y) ==
    LET first_i == FirstI(start_y, l.font.line_h) IN
    first_i .. LastI(Len(l.lines), first_i, l.font.line_h) - 1

\* The painter calls of the line loop of one paintEvent in the current state (none
\* under the countdown overlay and the empty hint, which return before the loop)
PaintCommands ==
    IF cd_val # None \/ text = <<>> THEN {}
    ELSE LET l == EnsureLayout IN
         UNION {LineCommands(i, l, StartY) : i \in PaintRange(l, StartY)}

\* paintEvent, as far as it writes state: the countdown overlay calls _ensure_font(),
\* the empty hint returns, otherwise _ensure_layout()
PaintEvent ==
    /\ IF cd_val # None THEN ApplyFont(EnsureFont)
       ELSE IF text = <<>>
            THEN UNCHANGED <<fontCache, layCache, nw_all>>
            ELSE ApplyLayout(EnsureLayout)
    /\ UNCHANGED <<text, countdown_secs, playVars, speedVars, styleVars, nw_cur,
                   histVars, lookupVars>>

(***************************************************************************)
(* Microphone auto-speed                                                   *)
(***************************************************************************)
\* ControlPanel._on_mic(v): auto_speed_enabled = v; start_mic() or stop_mic().
\* start_mic captures thr = self.mic_threshold and opens the stream; device_ok
\* tells whether sd.InputStream(...).start() succeeds (else the exception is
\* printed and _mic_stream stays None).
OnMic(v, device_ok) ==
    /\ v # auto_speed_enabled
    /\ auto_speed_enabled' = v
    /\ mic_stream' = IF v
                     THEN IF mic_stream # None THEN mic_stream
                          ELSE IF device_ok THEN Some(mic_threshold) ELSE None
                     ELSE None
    /\ ev' = Event("on_mic", "")
    /\ UNCHANGED <<lookupVars, speed_ops, style_ops, auto_ticks, text, countdown_secs, playVars, speed, mic_threshold, mic_smooth,
                   mic_target, styleVars, fontCache, layCache, notesVars,
                   cd_start, cd_ticks, skips>>

\* The sensitivity slider: prompter.mic_threshold = v / 200.0
OnThreshold(v) ==
    /\ v # mic_threshold                      \* valueChanged
    /\ mic_threshold' = v
    /\ ev' = Event("on_threshold", "")
    /\ UNCHANGED <<lookupVars, speed_ops, style_ops, auto_ticks, text, countdown_secs, playVars, speed, auto_speed_enabled,
                   mic_smooth, mic_target, mic_stream, styleVars, fontCache, layCache,
                   notesVars, cd_start, cd_ticks, skips>>

\* self._mic_target = self.speed if rms > thr else 0.0   (rms in 1/200)
MicTarget(rms, thr, spd) == IF rms > thr THEN spd ELSE 0

\* A callback that also resets the smoothed speed
AudioCallbackWritesSmooth(rms) ==
    /\ mic_stream # None
    /\ mic_target' = MicTarget(rms, mic_stream[1], speed)
    /\ mic_smooth' = mic_target'
    /\ UNCHANGED <<text, countdown_secs, playVars, speed, auto_speed_enabled,
                   mic_threshold, mic_stream, styleVars, fontCache,
                   layCache, notesVars, histVars, lookupVars>>

\* The audio callback cb(indata): runs while the stream is open
AudioCallback(rms) ==
    /\ mic_stream # None
    /\ mic_target' = MicTarget(rms, mic_stream[1], speed)
    /\ UNCHANGED <<text, countdown_secs, playVars, speed, auto_speed_enabled,
                   mic_threshold, mic_smooth, mic_stream, styleVars, fontCache,
                   layCache, notesVars, histVars, lookupVars>>

(***************************************************************************)
(* Inputs                                                                  *)
(***************************************************************************)
\* "ab\n[PAUSE]\ncd": three one-line paragraphs, the middle one the pause token
ScriptPause == <<"a", "b", "\n", "[", "P", "A", "U", "S", "E", "]", "\n", "c", "d">>

\* "a [[n]]\nb\n[PAUSE]": a note on line 0, a pause line last
ScriptNote == <<"a", " ", "[", "[", "n", "]", "]", "\n", "b", "\n",
                "[", "P", "A", "U", "S", "E", "]">>

\* "aaaa bbbb cccc dddd": one paragraph of four words, wider than a 640 px window
\* allows at 48 pt
ScriptWrap == <<"a", "a", "a", "a", " ", "b", "b", "b", "b", " ",
                "c", "c", "c", "c", " ", "d", "d", "d", "d">>

TextInputs      == {ScriptPause}
ElapsedInputs   == {50, 250}        \* _elapsed.restart() in ms
SliderInputs    == {4, 40}          \* speed slider values (range 1..40)
FontSizeInputs  == {16, 48}         \* font slider values (range 16..120)
WidthInputs     == {640, 920}       \* window widths (minimum 640)
CountdownInputs == {0, 3}           \* countdown spin box values (range 0..10)

(***************************************************************************)
(* The state after TeleprompterWindow.__init__                             *)
(***************************************************************************)
\* The constructor's state, with the script, speed, countdown and font size given
InitState(t, spd, cds, fs) ==
    /\ text = t
    /\ scroll_y = 0
    /\ is_playing = FALSE
    /\ speed = spd
    /\ font_family = "Arial"
    /\ font_size = fs
    /\ line_spacing_factor = 12
    /\ text_align = AlignLeft
    /\ width = 920
    /\ countdown_secs = cds
    /\ cd_val = None
    /\ cd_timer = FALSE
    /\ scroll_timer = FALSE
    /\ auto_speed_enabled = FALSE
    /\ mic_threshold = 5
    /\ mic_smooth = 0
    /\ mic_target = 0
    /\ mic_stream = None
    /\ font_key = <<>>
    /\ f_fm = None
    /\ f_line_h = 1
    /\ f_sp_w = 8
    /\ layout_key = <<>>
    /\ l_lines = <<>>
    /\ l_word_xs = <<>>
    /\ l_pause = {}
    /\ l_notes = <<>>
    /\ l_total = 0
    /\ last_fl = -1
    /\ nw_cur = None
    /\ nw_all = <<>>
    /\ ev = Event("init", "")
    /\ cd_start = 0
    /\ cd_ticks = 0
    /\ skips = 0
    /\ auto_ticks = 0
    /\ style_ops = 0
    /\ speed_ops = 0

\* ... with no paint in progress
InitWith(t, spd, cds, fs) ==
    /\ InitState(t, spd, cds, fs)
    /\ p_dist = None
    /\ p_alpha = None
    /\ p_geom = None
    /\ p_range = None

Init == InitWith(<<>>, 2 * SpeedRes, 3, 48)

(***************************************************************************)
(* The playback engine in manual-speed mode                                *)
(***************************************************************************)
Next ==
    \/ TogglePlay
    \/ Reset
    \/ CdTick
    \/ \E e \in ElapsedInputs : ScrollStep(e)
    \/ \E v \in SliderInputs : OnSpeed(v)
    \/ KeyLeft
    \/ KeyRight
    \/ \E t \in TextInputs : SetText(t)
    \/ \E v \in CountdownInputs : SetCountdownSecs(v)
    \/ PaintEvent

Spec == Init /\ [][Next]_vars

(***************************************************************************)
(* The engine with the microphone auto-speed                               *)
(***************************************************************************)
RmsInputs == {0, 10}     \* amplitude samples in 1/200 (the default threshold is 5)

NextAuto ==
    \/ TogglePlay
    \/ CdTick
    \/ \E e \in ElapsedInputs : ScrollStep(e)
    \/ \E v \in BOOLEAN, ok \in BOOLEAN : OnMic(v, ok)
    \/ \E r \in RmsInputs : AudioCallback(r)
    \/ \E t \in TextInputs : SetText(t)

SpecAuto == Init /\ [][NextAuto]_vars

(***************************************************************************)
(* The microphone controls: the auto-speed check box with the input device *)
(* present or absent, the sensitivity slider, the audio callback on its    *)
(* own thread, with ticks, paints and the speed slider around them          *)
(***************************************************************************)
ThresholdInputs == {5, 15}     \* sensitivity slider values (range 1..20)

InitMic == InitWith(ScriptPause, 2 * SpeedRes, 0, 48)

NextMic ==
    \/ TogglePlay
    \/ ScrollStep(DtMax)
    \/ \E v \in BOOLEAN, ok \in BOOLEAN : OnMic(v, ok)
    \/ \E v \in ThresholdInputs : OnThreshold(v)
    \/ \E r \in RmsInputs : AudioCallback(r)
    \/ \E v \in SliderInputs : OnSpeed(v)
    \/ PaintEvent

SpecMic == InitMic /\ [][NextMic]_vars

(***************************************************************************)
(* The notes collaborator: a script with a note, played, skipped through    *)
(* with the arrow keys, reset and painted                                   *)
(***************************************************************************)
InitNotes == InitWith(ScriptNote, 2 * SpeedRes, 0, 48)

NextNotes ==
    \/ TogglePlay
    \/ ScrollStep(DtMax)
    \/ KeyLeft
    \/ KeyRight
    \/ Reset
    \/ PaintEvent

SpecNotes == InitNotes /\ [][NextNotes]_vars

(***************************************************************************)
(* Every event of the display window in one run: play, reset, both timers, *)
(* script replacement, speed keys, skip keys, resizes and paints            *)
(***************************************************************************)
InitTotal == InitWith(<<>>, SpeedMax - SpeedStep, 1, 48)

NextTotal ==
    \/ TogglePlay
    \/ Reset
    \/ CdTick
    \/ ScrollStep(DtMax)
    \/ \E t \in TextInputs : SetText(t)
    \/ SpeedUp
    \/ SpeedDn
    \/ KeyLeft
    \/ KeyRight
    \/ \E w \in WidthInputs : ResizeEvent(w)
    \/ PaintEvent

SpecTotal == InitTotal /\ [][NextTotal]_vars

(***************************************************************************)
(* End-to-end scenario 1: the three-line script with the pause token in    *)
(* the middle, from the reset state, one play request, then the timers.    *)
(* Both timers are Qt timers on the event loop: while active they fire.    *)
(***************************************************************************)
ScenarioInit ==
    \E spd \in {(v * SpeedRes) \div 2 : v \in SliderInputs \cup {1, 20}},
       cds \in CountdownInputs, fs \in FontSizeInputs :
        InitWith(ScriptPause, spd, cds, fs)

ScenarioPlay == ev.op = "init" /\ TogglePlay

ScenarioTick == \E e \in ElapsedInputs : ScrollStep(e)

ScenarioNext == ScenarioPlay \/ CdTick \/ ScenarioTick

\* Weak fairness of the scroll tick, WF_vars(ScenarioTick), written out as
\* []<>~ENABLED <<ScenarioTick>>_vars \/ []<><<ScenarioTick>>_vars: in manual
\* mode a tick can be taken, and changes the state, exactly while the scroll
\* timer is active.
ScenarioTickFair == []<>(~scroll_timer) \/ []<><<ScenarioTick>>_vars

SpecScenario ==
    /\ ScenarioInit
    /\ [][ScenarioNext]_vars
    /\ WF_vars(ScenarioPlay)
    /\ WF_vars(CdTick)
    /\ ScenarioTickFair

(***************************************************************************)
(* The font metrics and the layout computed from the current inputs, with  *)
(* no cache consulted                                                      *)
(***************************************************************************)
\* What _ensure_font computes for the current family, size and line spacing
FreshFont ==
    [key    |-> FontKeyNow,
     fm     |-> <<font_family, font_size>>,
     line_h |-> LineHeight(<<font_family, font_size>>, line_spacing_factor),
     sp_w   |-> CharAdvance(<<font_family, font_size>>)]

\* What _ensure_layout's wrap computes for the current text, width, font and alignment
FreshLayoutOf(f) == BuildLayout(text, width, f.fm, f.sp_w, f.line_h, text_align)

\* The cached fields equal those of the font f and the layout b
CachesEqual(f, b) ==
    /\ f_fm = f.fm
    /\ f_line_h = f.line_h
    /\ f_sp_w = f.sp_w
    /\ l_lines = b.lines
    /\ l_word_xs = b.word_xs
    /\ l_pause = b.pause
    /\ l_notes = b.notes
    /\ l_total = b.total

\* The fields l that _ensure_layout hands to its caller equal those of the font f
\* and the layout b
ReadEqual(l, f, b) ==
    /\ l.font.fm = f.fm
    /\ l.font.line_h = f.line_h
    /\ l.font.sp_w = f.sp_w
    /\ l.lines = b.lines
    /\ l.word_xs = b.word_xs
    /\ l.pause = b.pause
    /\ l.notes = b.notes
    /\ l.total = b.total

\* The cached font metrics and layout are those of the current inputs
LayoutFresh == CachesEqual(FreshFont, FreshLayoutOf(FreshFont))

(***************************************************************************)
(* The caches under script and style changes: set_text, the display tab's  *)
(* font, spacing and alignment controls, window resizes, with paints and   *)
(* ticks reading the layout                                                *)
(***************************************************************************)
LayoutTexts    == {ScriptNote, ScriptWrap}
FamilyInputs   == {"Arial", "Courier"}
LsInputs       == {12, 20}           \* line spacing slider values (range 10..30)
AlignInputs    == {AlignLeft, AlignHCenter, AlignRight}

\* The window as constructed, with the countdown spin box at 1
InitLayout == InitWith(<<>>, 2 * SpeedRes, 1, 48)

NextLayout ==
    \/ \E t \in LayoutTexts : SetText(t)
    \/ \E v \in FontSizeInputs : OnFont(v)
    \/ \E f \in FamilyInputs : OnFontFamily(f)
    \/ \E v \in LsInputs : OnLs(v)
    \/ \E a \in AlignInputs : OnAlign(a)
    \/ \E w \in WidthInputs : ResizeEvent(w)
    \/ PaintEvent
    \/ TogglePlay
    \/ CdTick
    \/ ScrollStep(DtMax)

SpecLayout == InitLayout /\ [][NextLayout]_vars

(***************************************************************************)
(* The manual speed: keys, wheel and touch buttons (_speed_up, _speed_dn)  *)
(* and the speed slider, with play, countdown and reset around them        *)
(***************************************************************************)
SpeedRequests == 0 .. 41     \* slider positions asked for, within and beyond its range

NextSpeed ==
    \/ SpeedUp
    \/ SpeedDn
    \/ \E v \in SpeedRequests : OnSpeed(SliderValue(v))
    \/ TogglePlay
    \/ CdTick
    \/ Reset

SpecSpeed == Init /\ [][NextSpeed]_vars

(***************************************************************************)
(* The text parser and the line wrapper: scripts with notes, pause lines   *)
(* and long words, laid out under font, spacing, alignment and width       *)
(* changes                                                                 *)
(***************************************************************************)
\* "aa bbbbbbbb cc": one paragraph whose middle word is wider than a 640 px window
\* allows at 120 pt
ScriptLong == <<"a", "a", " ", "b", "b", "b", "b", "b", "b", "b", "b", " ", "c", "c">>

\* "xxxx [[ m ]] yyyy [[k]]\nz": two directives on the first line, which wraps at
\* 120 pt in a 640 px window, none on the second
ScriptTwoNotes == <<"x", "x", "x", "x", " ", "[", "[", " ", "m", " ", "]", "]", " ",
                    "y", "y", "y", "y", " ", "[", "[", "k", "]", "]", "\n", "z">>

\* "go [PAUSE] on\n[PAUSE] [[q]]": the pause token inside a paragraph, then a pause line that
\* carries a note
ScriptInline == <<"g", "o", " ", "[", "P", "A", "U", "S", "E", "]", " ", "o", "n",
                  "\n", "[", "P", "A", "U", "S", "E", "]", " ", "[", "[", "q", "]",
                  "]">>

WrapTexts      == {ScriptWrap, ScriptLong, ScriptNote, ScriptTwoNotes, ScriptInline}
WrapFontInputs == {16, 48, 120}     \* font slider values (range 16..120)

InitWrap == \E t \in WrapTexts : InitWith(t, 2 * SpeedRes, 0, 48)

NextWrap ==
    \/ \E t \in WrapTexts : SetText(t)
    \/ \E v \in WrapFontInputs : OnFont(v)
    \/ \E f \in FamilyInputs : OnFontFamily(f)
    \/ \E v \in LsInputs : OnLs(v)
    \/ \E a \in AlignInputs : OnAlign(a)
    \/ \E w \in WidthInputs : ResizeEvent(w)
    \/ PaintEvent

SpecWrap == InitWrap /\ [][NextWrap]_vars

(***************************************************************************)
(* The alpha lookup of the paint loop, for every distance a line can have  *)
(***************************************************************************)
\* Largest distance |ay - focus_y| looked up
MaxDist == 600

InitAlpha ==
    /\ InitState(ScriptPause, 2 * SpeedRes, 3, 48)
    /\ p_dist \in {Some(d) : d \in 0 .. MaxDist}
    /\ p_alpha = None
    /\ p_geom = None
    /\ p_range = None

NextAlpha == AlphaLookup

SpecAlpha == InitAlpha /\ [][NextAlpha]_vars

(***************************************************************************)
(* Properties of the playback engine                                       *)
(***************************************************************************)
\* C1: reset() invoked in any state leaves the scroll offset 0, playback not
\* playing, no countdown pending, the countdown timer and the scroll ticker
\* stopped, and the focus-line tracker invalidated (-1).
C1_ResetPostcondition ==
    ev.op = "reset" =>
        /\ scroll_y = 0
        /\ ~is_playing
        /\ cd_val = None
        /\ ~cd_timer
        /\ ~scroll_timer
        /\ last_fl = -1

\* reset() has just run in the Playing state
C1_Witness == ev = Event("reset", "playing") /\ scroll_y = 0 /\ last_fl = -1

\* C2: whenever a Playing tick changes the focus-line index to the index p of
\* a Pause line, the tick ends with the scroll offset exactly p * lineHeight,
\* playback not playing and the scroll ticker stopped.
C2_PauseSnapExact ==
    [][(/\ scroll_timer
        /\ ev'.op = "scroll_step"
        /\ last_fl' # last_fl
        /\ last_fl' \in l_pause')
       => (/\ scroll_y' = last_fl' * f_line_h' * YPerPx
           /\ ~is_playing'
           /\ ~scroll_timer')]_vars

\* A tick has just paused at a Pause line below the top of the script
C2_Witness ==
    /\ ev = Event("scroll_step", "pause")
    /\ last_fl \in l_pause
    /\ last_fl > 0
    /\ scroll_y = last_fl * f_line_h * YPerPx
    /\ ~is_playing

\* C3: for every manual speed in [0.5, 20], every dt in [1, 100] ms and every
\* line height >= 1, no tick moves the focus index from below a Pause line's
\* index to above it: playback pauses at the Pause line first.
C3_NoPauseLineCrossed ==
    [][(/\ scroll_timer
        /\ ~auto_speed_enabled
        /\ ev'.op = "scroll_step"
        /\ f_line_h' >= 1)
       => \A p \in l_pause' :
            ~(/\ FocusLine(scroll_y, f_line_h') < p
              /\ FocusLine(scroll_y', f_line_h') > p)]_vars

\* C4: with the three-line script whose middle line is the pause token, from
\* the reset state, play followed by the countdown and scroll ticks eventually
\* reaches a state where playback is paused and the scroll offset is exactly
\* one lineHeight.
C4_EventuallyPausedAtLineOne ==
    <>(/\ ~is_playing
       /\ ~scroll_timer
       /\ cd_val = None
       /\ ev = Event("scroll_step", "pause")
       /\ scroll_y = f_line_h * YPerPx)

\* C5: in every reachable state 0 <= scroll offset <= total content height of
\* the current layout.
C5_ScrollWithinContent ==
    /\ 0 <= scroll_y
    /\ scroll_y <= EnsureLayout.total

\* C6: every tick executed in the Playing state leaves the scroll offset (after
\* any pause-line snap or end-of-content clamp) >= the offset before the tick.
C6_MonotoneWhilePlaying ==
    [][(is_playing /\ scroll_timer /\ ev'.op = "scroll_step")
       => scroll_y' >= scroll_y]_vars

\* C7 (as stated): in the Idle, Counting and Paused states no operation
\* increases the scroll offset, and the scroll ticker does not run.
C7_OnlyPlayingAdvances ==
    /\ [](~is_playing => ~scroll_timer)
    /\ [][~is_playing => scroll_y' <= scroll_y]_vars

\* C7 (amended): in the Idle, Counting and Paused states the scroll ticker
\* does not run and no operation other than the Right-arrow skip key increases
\* the scroll offset.
C7_OnlyPlayingOrSkipAdvances ==
    /\ [](~is_playing => ~scroll_timer)
    /\ [][(~is_playing /\ scroll_y' > scroll_y)
          => (/\ ev' = Event("key_right", "")
              /\ scroll_y' = scroll_y + SkipPx * YPerPx)]_vars
    /\ [][(ev'.op = "scroll_step" /\ scroll_y' > scroll_y) => is_playing]_vars

\* Playback has been paused by the user below the top of the script, the
\* ticker stopped
C7_Witness ==
    /\ ev = Event("toggle_play", "pause")
    /\ ~is_playing
    /\ ~scroll_timer
    /\ scroll_y > 0

\* Elapsed times a, b with a + b within [1, 100] ms
DtParts == {16, 50}

\* From the tick input s: neither the tick of a, nor the tick of b after it, nor
\* the single tick of a + b reaches a Pause line or the end of the content
RunsThrough(s, a, b) ==
    /\ Tick(s, a).out = "run"
    /\ Tick(TickState(Tick(s, a)), b).out = "run"
    /\ Tick(s, a + b).out = "run"

\* From the tick input s: one tick of a + b and two ticks of a and b end at
\* the same scroll offset
SameOffset(s, a, b) == Tick(TickState(Tick(s, a)), b).y = Tick(s, a + b).y

\* C8 (as stated): in any Playing state, manual speed or auto-speed, when no
\* Pause line and no end of content is reached, one tick of a + b yields the
\* same scroll offset as two consecutive ticks of a and b.
C8_FrameRateIndependent ==
    \A a \in DtParts, b \in DtParts :
        (is_playing /\ RunsThrough(TickInput, a, b)) => SameOffset(TickInput, a, b)

\* C8 (amended): in any Playing state with auto-speed disabled, when no Pause
\* line and no end of content is reached, one tick of a + b yields the same
\* scroll offset as two consecutive ticks of a and b.
C8_FrameRateIndependentManual ==
    \A a \in DtParts, b \in DtParts :
        (is_playing /\ ~auto_speed_enabled /\ RunsThrough(TickInput, a, b))
            => SameOffset(TickInput, a, b)

\* Playing at manual speed in the middle of a line, a tick just taken
\* and room for ticks of 16, 16 and 32 ms
C8_Witness ==
    /\ is_playing
    /\ ~auto_speed_enabled
    /\ ev = Event("scroll_step", "run")
    /\ scroll_y > 0
    /\ RunsThrough(TickInput, 16, 16)
    /\ Tick(TickInput, 32).y > scroll_y

\* C9: a Playing tick that did not auto-pause and leaves the scroll offset at
\* or beyond the total content height ends with the offset exactly the total
\* height, playback not playing and the ticker stopped; the ticker is started
\* again only by a play request (directly or at the end of its countdown).
C9_EndClamp ==
    /\ [][(/\ scroll_timer
           /\ ev'.op = "scroll_step"
           /\ ev'.out # "pause"
           /\ mic_target' = mic_target
           /\ scroll_y' >= l_total')
          => (/\ scroll_y' = l_total'
              /\ ev'.out = "end"
              /\ ~is_playing'
              /\ ~scroll_timer')]_vars
    /\ [][(~scroll_timer /\ scroll_timer')
          => (ev' = Event("toggle_play", "play") \/ ev'.op = "cd_tick")]_vars
    /\ [][(ev'.op = "scroll_step" /\ ev' # ev) => scroll_timer]_vars

\* A tick has just ended playback at the end of a three-line script
C9_Witness ==
    /\ ev = Event("scroll_step", "end")
    /\ scroll_y = l_total
    /\ l_total = 3 * f_line_h * YPerPx
    /\ ~is_playing
    /\ ~scroll_timer

\* C10: a countdown started with n > 0 decrements once per countdown tick and,
\* unless cancelled or reset, enters Playing (ticker started, countdown cleared,
\* countdown timer stopped) at exactly the n-th tick and never earlier; with
\* countdown seconds = 0 a play request enters Playing immediately.
C10_Countdown ==
    /\ [](cd_val # None =>
            /\ cd_start > 0
            /\ cd_val[1] = cd_start - cd_ticks
            /\ cd_val[1] > 0
            /\ cd_timer
            /\ ~is_playing
            /\ ~scroll_timer)
    /\ [][(cd_val # None /\ ev'.op = "cd_tick" /\ ev' # ev)
          => IF cd_ticks + 1 = cd_start
             THEN /\ ev' = [op |-> "cd_tick", out |-> "play", n |-> cd_start, k |-> cd_start]
                  /\ is_playing'
                  /\ scroll_timer'
                  /\ cd_val' = None
                  /\ ~cd_timer'
             ELSE /\ ev' = Event("cd_tick", "count")
                  /\ cd_val' = Some(cd_val[1] - 1)
                  /\ ~is_playing']_vars
    /\ [][(cd_val # None /\ is_playing') => ev'.op = "cd_tick"]_vars
    /\ [][(/\ cd_val = None
           /\ ~is_playing
           /\ ev'.op = "toggle_play"
           /\ ev' # ev)
          => IF countdown_secs = 0
             THEN is_playing' /\ scroll_timer' /\ cd_val' = None /\ ~cd_timer'
             ELSE ~is_playing' /\ cd_val' = Some(countdown_secs) /\ cd_timer']_vars

\* A countdown of 3 has just entered Playing at its third tick
C10_Witness ==
    /\ ev = [op |-> "cd_tick", out |-> "play", n |-> 3, k |-> 3]
    /\ is_playing
    /\ scroll_timer
    /\ cd_val = None

\* C11: cancelling a countdown (toggle_play while a countdown is pending) stops
\* the countdown timer, returns to the not-playing / no-countdown state and
\* leaves the scroll offset unchanged; afterwards playback starts only by a new
\* play request (directly, or by the countdown such a request starts).
C11_CancelCountdown ==
    /\ [][(cd_val # None /\ ev'.op = "toggle_play" /\ ev' # ev)
          => (/\ ev' = Event("toggle_play", "cancel")
              /\ ~cd_timer'
              /\ cd_val' = None
              /\ ~is_playing'
              /\ ~scroll_timer'
              /\ scroll_y' = scroll_y
              /\ last_fl' = last_fl)]_vars
    /\ [](cd_timer => cd_val # None)
    /\ [][(cd_val = None /\ cd_val' # None) => ev' = Event("toggle_play", "countdown")]_vars
    /\ [][(~is_playing /\ is_playing')
          => \/ cd_val = None /\ ev' = Event("toggle_play", "play")
             \/ cd_val # None /\ cd_timer /\ ev'.op = "cd_tick"]_vars

\* A countdown has just been cancelled with the script scrolled below its top
C11_Witness ==
    /\ ev = Event("toggle_play", "cancel")
    /\ cd_val = None
    /\ ~cd_timer
    /\ ~is_playing
    /\ scroll_y > 0

\* C12 (as stated): a user pause during Playing leaves the scroll offset and
\* the focus-line tracker unchanged and stops the ticker, and the offset stays
\* frozen until the next play (reset and script replacement aside).
C12_PauseFreezes ==
    /\ [][(is_playing /\ ev'.op = "toggle_play" /\ ev' # ev)
          => (/\ ev' = Event("toggle_play", "pause")
              /\ scroll_y' = scroll_y
              /\ last_fl' = last_fl
              /\ ~is_playing'
              /\ ~scroll_timer')]_vars
    /\ [][(ev = Event("toggle_play", "pause") /\ ~is_playing'
           /\ ev'.op \notin {"reset", "set_text"})
          => scroll_y' = scroll_y]_vars

\* C12 (amended): a user pause during Playing leaves the scroll offset and the
\* focus-line tracker unchanged and stops the ticker; while not playing the
\* ticker stays stopped and the offset is changed by no tick, only by the
\* arrow-key skips, reset and script replacement.
C12_PauseInPlace ==
    /\ [][(is_playing /\ ev'.op = "toggle_play" /\ ev' # ev)
          => (/\ ev' = Event("toggle_play", "pause")
              /\ scroll_y' = scroll_y
              /\ last_fl' = last_fl
              /\ ~is_playing'
              /\ ~scroll_timer'
              /\ cd_val' = None)]_vars
    /\ [](~is_playing => ~scroll_timer)
    /\ [][(~is_playing /\ scroll_y' # scroll_y)
          => ev'.op \in {"key_left", "key_right", "reset", "set_text"}]_vars

\* Playback has just been paused by the user in the middle of a line
C12_Witness ==
    /\ ev = Event("toggle_play", "pause")
    /\ ~is_playing
    /\ ~scroll_timer
    /\ last_fl >= 0
    /\ scroll_y > last_fl * f_line_h * YPerPx

\* C14: the manual speed stays within [0.5, 20.0] in every reachable state,
\* whatever sequence of speed-up, speed-down and slider changes is applied.
C14_SpeedInRange ==
    /\ 2 * speed >= SpeedRes
    /\ speed <= 20 * SpeedRes

\* A speed-down has just been applied at the lowest speed
C14_Witness ==
    /\ ev = Event("speed_dn", "")
    /\ 2 * speed = SpeedRes

\* C13: set_text(t) in any state replaces the whole script with t, sets the
\* scroll offset to 0 and invalidates the layout cache, so that the next tick
\* or paint uses a layout computed from t.
C13_SetText ==
    ev.op = "set_text" =>
        /\ text = ev.t
        /\ scroll_y = 0
        /\ (layout_key = <<>> \/ LayoutFresh)
        /\ ReadEqual(EnsureLayout, FreshFont,
                     BuildLayout(ev.t, width, FreshFont.fm, FreshFont.sp_w,
                                 FreshFont.line_h, text_align))

\* The four-word script has replaced another one during playback and has been
\* painted: its layout is cached, wrapped on two lines
C13_Witness ==
    /\ ev = [op |-> "set_text", out |-> "", t |-> ScriptWrap]
    /\ is_playing
    /\ text = ScriptWrap
    /\ scroll_y = 0
    /\ layout_key # <<>>
    /\ Len(l_lines) = 2

\* C15: _ensure_layout is idempotent on an unchanged key: when text, viewport
\* width, font key and alignment are those of the last rebuild and no
\* invalidation occurred, calling it again re-wraps nothing, changes no cached
\* field and does not republish the notes.
C15_EnsureLayoutIdempotent ==
    (font_key = FontKeyNow /\ layout_key = <<text, width, font_key, text_align>>)
        => /\ ~EnsureLayout.rebuilt
           /\ EnsureLayout.key = layout_key
           /\ EnsureLayout.font.key = font_key
           /\ EnsureLayout.font.fm = f_fm
           /\ EnsureLayout.font.line_h = f_line_h
           /\ EnsureLayout.font.sp_w = f_sp_w
           /\ EnsureLayout.lines = l_lines
           /\ EnsureLayout.word_xs = l_word_xs
           /\ EnsureLayout.pause = l_pause
           /\ EnsureLayout.notes = l_notes
           /\ EnsureLayout.total = l_total

\* A running tick has just called _ensure_layout on the script with a note, its
\* key unchanged since the rebuild that published the note
C15_Witness ==
    /\ ev = Event("scroll_step", "run")
    /\ text = ScriptNote
    /\ font_key = FontKeyNow
    /\ layout_key = <<text, width, font_key, text_align>>
    /\ Len(l_lines) = 3
    /\ nw_all = l_notes
    /\ scroll_y > 0

\* C16: the layout is never used stale: in every reachable state, after any
\* interleaving of setters, resizes and invalidations, the data _ensure_layout
\* hands to a tick or a paint (lines, word offsets, pause set, note map, total
\* height, font metrics) is that computed from the current text, viewport
\* width, font family / size / spacing and alignment; a tick leaves the caches
\* holding it.
C16_LayoutNeverStale ==
    /\ ReadEqual(EnsureLayout, FreshFont, FreshLayoutOf(FreshFont))
    /\ ev.op = "scroll_step" => LayoutFresh

\* A tick has just read the layout of the four-word script after the window was
\* narrowed and the font key changed: it is wrapped on two lines
C16_Witness ==
    /\ ev.op = "scroll_step"
    /\ style_ops = 2
    /\ text = ScriptWrap
    /\ width = 640
    /\ font_size = 48
    /\ Len(l_lines) = 2
    /\ LayoutFresh

\* C17: whenever the layout key is valid, its font component equals the
\* current font-cache key: every rebuild or invalidation of the font-metrics
\* cache invalidates the layout cache.
C17_FontKeyInLayoutKey ==
    layout_key # <<>> => (font_key # <<>> /\ layout_key[3] = font_key)

\* A layout has been rebuilt after a font size change: its key is valid and
\* carries the new font key
C17_Witness ==
    /\ layout_key # <<>>
    /\ font_size = 16
    /\ font_key = FontKeyNow
    /\ layout_key[3] = font_key
    /\ text # <<>>

(***************************************************************************)
(* Properties of the alpha fade table and of the paint loop                *)
(***************************************************************************)
\* C18 (as stated): for every distance d in 0..511 the alpha fade table entry
\* equals max(0, 255 - round(d * 0.75)).
C18_TableRounds ==
    (p_alpha # None /\ p_dist[1] < LutSize)
        => p_alpha[1] = AlphaEntryRounded(p_dist[1])

\* C18 (amended): for every distance d in 0..511 the alpha fade table entry
\* equals max(0, 255 - floor(d * 0.75)): the product is truncated, not rounded.
\* Below 340 the entry a satisfies 255 - a <= 3d/4 < 255 - a + 1; from 340 on it is 0.
C18_TableTruncates ==
    (p_alpha # None /\ p_dist[1] < LutSize)
        => LET d == p_dist[1]
               a == p_alpha[1] IN
           /\ a = ALPHA_LUT[d]
           /\ IF 3 * d < 4 * 255
              THEN /\ 4 * (255 - a) <= 3 * d
                   /\ 3 * d < 4 * (255 - a) + 4
              ELSE a = 0

\* The entry of distance 1 has been looked up: 0.75 truncates to 0, the entry is 255
\* (rounding would give 254)
C18_Witness ==
    /\ p_dist = Some(1)
    /\ p_alpha = Some(255)
    /\ AlphaEntryRounded(1) = 254

\* C19: the alpha fade table has table[0] = 255, is monotonically non-increasing
\* in d, is 0 for every d >= 340 and positive for d < 340, and a paint-time
\* lookup for any distance >= 512 returns the same value as table[511].
C19_TableShape ==
    /\ ALPHA_LUT[0] = 255
    /\ \A d \in 0 .. LutSize - 2 : ALPHA_LUT[d + 1] <= ALPHA_LUT[d]
    /\ \A d \in 0 .. LutSize - 1 : IF d >= 340 THEN ALPHA_LUT[d] = 0 ELSE ALPHA_LUT[d] > 0
    /\ p_alpha # None =>
          /\ p_dist[1] < LutSize  => p_alpha[1] = ALPHA_LUT[p_dist[1]]
          /\ p_dist[1] >= LutSize => p_alpha[1] = ALPHA_LUT[LutSize - 1]

\* A distance past the end of the table has been looked up, and the last positive
\* entry is the one before 340
C19_Witness ==
    /\ p_dist # None
    /\ p_dist[1] > LutSize
    /\ p_alpha = Some(0)
    /\ ALPHA_LUT[339] = 1

\* The lines of the loop range that have a painter call among cmds
DrawnLines(cmds) == {c.line : c \in cmds}

\* C20 holds of one paint of the layout l from start_y
FaintLinesNotDrawn(l, start_y, cmds) ==
    /\ \A c \in cmds : c.alpha >= 8 /\ c.alpha = AlphaAt(LineDist(c.line, l, start_y))
    /\ \A i \in PaintRange(l, start_y) :
          AlphaAt(LineDist(i, l, start_y)) < 8 => i \notin DrawnLines(cmds)

\* C20: during paint, a line whose looked-up opacity is below 8 causes no draw
\* command at all (no text, shadow or pause marker); every line for which
\* anything is drawn has opacity >= 8.
C20_FaintLinesNotDrawn ==
    (cd_val = None /\ text # <<>>)
        => FaintLinesNotDrawn(EnsureLayout, StartY, PaintCommands)

\* A paint whose range holds a line of opacity below 8 next to a pause marker and
\* a text line that are drawn
C20_Witness ==
    /\ cd_val = None
    /\ text # <<>>
    /\ \E i \in PaintRange(EnsureLayout, StartY) :
          AlphaAt(LineDist(i, EnsureLayout, StartY)) < 8
    /\ \E c \in PaintCommands : c.op = "drawLine"
    /\ \E c \in PaintCommands : c.op = "drawText"

(***************************************************************************)
(* Properties of the text parser and the line wrapper                      *)
(***************************************************************************)
\* The width of a line of words: the sum of the word widths plus one space width
\* between consecutive words
WordsWidth(words, fm, sp_w) == SumAdvance(words, fm) + sp_w * (Len(words) - 1)

\* The wrap invariant of one layout l for the viewport width W
WrapInvariant(l, W) ==
    \A i \in 1 .. Len(l.lines) :
        LET words == SplitWords(l.lines[i]) IN
        \/ WordsWidth(words, l.font.fm, l.font.sp_w) <= W - 2 * 40
        \/ /\ Len(words) = 1
           /\ HorizontalAdvance(l.font.fm, words[1]) > W - 2 * 40

\* C21: for every wrapped DisplayLine, the sum of its word widths plus one space
\* width between consecutive words is <= viewport width minus the two 40-pixel
\* margins, unless the line consists of a single word that is itself wider than
\* that maximum.
C21_WrapInvariant ==
    text # <<>> => WrapInvariant(EnsureLayout, width)

\* The layout of "aa bbbbbbbb cc" at 120 pt in the 640 px window has been read:
\* the long word is alone on its line and wider than 560 px, the others fit
C21_Witness ==
    /\ text = ScriptLong
    /\ width = 640
    /\ layout_key = <<text, width, FontKeyNow, text_align>>
    /\ Len(l_lines) = 3
    /\ HorizontalAdvance(f_fm, l_lines[2]) > 560
    /\ HorizontalAdvance(f_fm, l_lines[1]) <= 560

\* A [[...]] directive of the raw line s: "[[" at i, "]]" at j, at least one
\* character between them
DirectiveAt(s, i, j) ==
    /\ i >= 1 /\ j + 1 <= Len(s) /\ j >= i + 3
    /\ s[i] = "[" /\ s[i + 1] = "["
    /\ s[j] = "]" /\ s[j + 1] = "]"

\* The first directive of s: the leftmost opening with its nearest closing; the set
\* is empty when s has no directive and has one element otherwise
FirstDirective(s) ==
    {d \in (1 .. Len(s)) \X (1 .. Len(s)) :
        /\ DirectiveAt(s, d[1], d[2])
        /\ \A i \in 1 .. (d[1] - 1) : \A j \in 1 .. Len(s) : ~DirectiveAt(s, i, j)
        /\ \A j \in 1 .. (d[2] - 1) : ~DirectiveAt(s, d[1], j)}

\* The number of DisplayLines the raw line raw produces on its own
LinesOfRaw(raw, l, W) ==
    Len(BuildLayout(raw, W, l.font.fm, l.font.sp_w, l.font.line_h, text_align).lines)

\* The index of the first DisplayLine of the k-th raw line
RECURSIVE FirstLineIndex(_, _, _, _)
FirstLineIndex(raws, k, l, W) ==
    IF k = 1 THEN 0
    ELSE FirstLineIndex(raws, k - 1, l, W) + LinesOfRaw(raws[k - 1], l, W)

\* The note map of the layout l of the script txt holds, for each raw line with a
\* directive, the trimmed text of its first directive under the line's first index
NotesAnchored(l, txt, W) ==
    LET raws  == SplitOn(txt, "\n")
        noted == {k \in 1 .. Len(raws) : FirstDirective(raws[k]) # {}}
    IN  /\ DOMAIN l.notes = {FirstLineIndex(raws, k, l, W) : k \in noted}
        /\ Cardinality(DOMAIN l.notes) = Cardinality(noted)
        /\ \A k \in noted :
              LET d  == CHOOSE x \in FirstDirective(raws[k]) : TRUE
                  fi == FirstLineIndex(raws, k, l, W)
              IN  /\ fi < Len(l.lines)
                  /\ l.notes[fi] = Strip(SubSeq(raws[k], d[1] + 2, d[2] - 1))

\* C22: for every raw script line, at most one note is recorded in the note map:
\* if the line contains a [[...]] directive, the trimmed text of its first such
\* directive is stored under the index of the first DisplayLine produced from that
\* line, and a line without a matching directive adds no note entry.
C22_OneNotePerLine == NotesAnchored(EnsureLayout, text, width)

\* The layout of "xxxx [[ m ]] yyyy [[k]]\nz" at 120 pt in the 640 px window has been
\* built: the first raw line wraps on two lines and its only note is "m" at index 0
C22_Witness ==
    /\ text = ScriptTwoNotes
    /\ layout_key = <<text, width, FontKeyNow, text_align>>
    /\ Len(l_lines) = 3
    /\ DOMAIN l_notes = {0}
    /\ l_notes[0] = <<"m">>
    /\ nw_all = l_notes

\* Whether the character sequence sub occurs in s
Contains(s, sub) ==
    \E i \in 1 .. (Len(s) - Len(sub) + 1) : SubSeq(s, i, i + Len(sub) - 1) = sub

\* Whether s holds a [[...]] directive
HasDirective(s) == \E i \in 1 .. Len(s) : \E j \in 1 .. Len(s) : DirectiveAt(s, i, j)

\* C23 (as stated): directives do not appear in display lines: after a layout
\* build, no DisplayLine's rendered string contains the text of a note directive or
\* the pause token.
C23_NoDirectiveInLines ==
    LET l == EnsureLayout IN
    \A i \in 1 .. Len(l.lines) :
        ~HasDirective(l.lines[i]) /\ ~Contains(l.lines[i], PAUSE_TAG)

\* The raw lines of txt that hold the pause token without being a pause line
InlinePauseRaws(txt) ==
    {raw \in {SplitOn(txt, "\n")[k] : k \in 1 .. Len(SplitOn(txt, "\n"))} :
        Contains(raw, PAUSE_TAG) /\ Strip(NoteSub(raw)) # PAUSE_TAG}

\* The layout l of the script txt and the painter calls cmds of a paint of it: no
\* line holds a note directive; a Pause line holds exactly the pause token, has no
\* words and is never drawn as text; any other line holding the token comes from
\* a raw line that holds it next to other words
DirectivesOut(l, txt, cmds) ==
    /\ \A i \in 1 .. Len(l.lines) : ~HasDirective(l.lines[i])
    /\ \A i \in l.pause :
          /\ i < Len(l.lines)
          /\ l.lines[i + 1] = PAUSE_TAG
          /\ l.word_xs[i + 1] = <<>>
          /\ \A c \in cmds : c.line = i => c.op \in {"drawLine", "drawPauseText"}
    /\ \A i \in 1 .. Len(l.lines) :
          (Contains(l.lines[i], PAUSE_TAG) /\ (i - 1) \notin l.pause)
              => InlinePauseRaws(txt) # {}

\* C23 (amended): after a layout build, no DisplayLine's string contains a note
\* directive.  The pause token remains in two places: as the stored string of a
\* Pause DisplayLine, which paint draws as a pause marker and never as text, and
\* where a raw line holds it next to other words, which is no pause line and is
\* displayed literally.
C23_NoNoteDirectiveInLines ==
    DirectivesOut(EnsureLayout, text, PaintCommands)

\* The layout of "go [PAUSE] on\n[PAUSE] [[q]]" has been built and is painted: line
\* 0 shows the token as text, line 1 is the Pause line with the note "q"
C23_Witness ==
    /\ text = ScriptInline
    /\ layout_key = <<text, width, FontKeyNow, text_align>>
    /\ Contains(l_lines[1], PAUSE_TAG)
    /\ l_pause = {1}
    /\ l_notes = (1 :> <<"q">>)
    /\ \E c \in PaintCommands : c.line = 1 /\ c.op = "drawLine"
    /\ \E c \in PaintCommands : c.line = 0 /\ c.op = "drawText"

(***************************************************************************)
(* Properties of the microphone auto-speed                                 *)
(***************************************************************************)
\* A tick in auto-speed mode took the smoothed speed from s0 to s1 under the
\* target t: the change is 0.10 * (t - s0) to the model's speed resolution, toward
\* the target and not past it, and s1 is within [0, 20] px/frame
SmoothedToward(s0, s1, t) ==
    /\ 10 * (s1 - s0) - (t - s0) \in -5 .. 5
    /\ t >= s0 => (s0 <= s1 /\ s1 <= t)
    /\ t <= s0 => (t <= s1 /\ s1 <= s0)
    /\ (t - s0 >= 5 \/ s0 - t >= 5) => s1 # s0
    /\ 0 <= s1 /\ s1 <= 20 * SpeedRes

\* C24: in auto-speed mode each tick changes the smoothed speed by exactly
\* 0.10 * (target - previous smoothed): it always moves toward the target, never
\* reaches past it, and with a constant target is monotone (rising when the target
\* is the manual speed, decaying toward 0 when the target is 0) and stays within
\* [0, 20].
C24_SmoothedSpeed ==
    [][/\ auto_ticks' # auto_ticks => SmoothedToward(mic_smooth, mic_smooth', mic_target)
       /\ mic_smooth' # mic_smooth => auto_ticks' # auto_ticks]_vars

\* Two ticks in auto-speed mode have run with the target at the manual speed: the
\* smoothed speed has risen above 0.10 of it and is still below it
C24_Witness ==
    /\ ev.op = "scroll_step"
    /\ auto_speed_enabled
    /\ auto_ticks >= 2
    /\ mic_target = speed
    /\ 10 * mic_smooth > speed
    /\ mic_smooth < speed

\* C25: the audio callback, at whatever point it interleaves with ticks, paints
\* and setters, writes only the single scalar auto-speed target: it leaves the
\* scroll offset, playback state, smoothed speed, manual speed, font cache and
\* layout cache unchanged.
C25_CallbackWritesTargetOnly ==
    [][mic_target' # mic_target
          => UNCHANGED <<scroll_y, last_fl, is_playing, scroll_timer, cd_val, cd_timer,
                         mic_smooth, speed, fontCache, layCache, text, styleVars,
                         auto_speed_enabled, mic_threshold, mic_stream, notesVars>>]_vars

\* The callback has raised the target to the manual speed between two ticks of a
\* playing engine, after a paint filled the caches
C25_Witness ==
    /\ is_playing
    /\ scroll_timer
    /\ auto_speed_enabled
    /\ mic_stream # None
    /\ ev.op = "scroll_step"
    /\ mic_target = speed
    /\ mic_smooth = 0
    /\ scroll_y = 0
    /\ layout_key # <<>>

\* C26: if auto-speed is switched on but the audio input is unavailable (the input
\* stream cannot be created or started), the engine keeps operating in
\* manual-speed mode: every Playing tick still advances the scroll offset at the
\* manual speed.
C26_ManualWhenMicUnavailable ==
    [][(/\ auto_ticks' # auto_ticks
        /\ mic_stream = None
        /\ ev'.out = "run")
          => scroll_y' - scroll_y >= speed * DtMin]_vars

(***************************************************************************)
(* Properties of the notes collaborator                                    *)
(***************************************************************************)
\* C27: the current note is published after every focus-line change: whenever the
\* focus-line index (floor(scroll offset / lineHeight)) takes a new value, the note
\* shown to the Notes collaborator becomes the note anchored to that line, or none
\* if the line has no note.  Stated for the steps that keep a valid layout and
\* leave the scroll timer stopped, so that no tick follows to publish the note.
C27_NotePublished ==
    [][(/\ layout_key # <<>>
        /\ layout_key' = layout_key
        /\ f_line_h > 0
        /\ ~scroll_timer'
        /\ FocusLine(scroll_y', f_line_h) # FocusLine(scroll_y, f_line_h))
          => nw_cur' = NoteAt(l_notes, FocusLine(scroll_y', f_line_h))]_vars

(***************************************************************************)
(* Totality of the handlers                                                *)
(***************************************************************************)
\* _cd_tick raises TypeError on "self._cd_val -= 1" when the timer fires with
\* _cd_val None
CdTickRaises == cd_timer /\ cd_val = None

\* The line loop of a paint of the layout l from start_y raises: a division by a
\* zero line height, lines[i] or word_xs[i] outside the lists, or a table index
\* outside _ALPHA_LUT
PaintRaises(l, start_y) ==
    \/ l.font.line_h = 0
    \/ Len(l.word_xs) # Len(l.lines)
    \/ \E i \in PaintRange(l, start_y) :
          \/ i < 0
          \/ i >= Len(l.lines)
          \/ LutIndex(LineDist(i, l, start_y)) \notin DOMAIN ALPHA_LUT

\* C28: state transitions are total: in every reachable state each event (toggle
\* play, reset, countdown-timer tick, scroll tick, set_text, speed up/down, skip
\* left/right, resize, paint) is handled without raising an error; in particular a
\* countdown tick never runs when no countdown value is pending and paint never
\* indexes outside the layout's lines.
C28_Total ==
    /\ ev.out # "TypeError"
    /\ ~CdTickRaises
    /\ scroll_y >= 0
    /\ (cd_val = None /\ text # <<>>) => ~PaintRaises(EnsureLayout, StartY)

\* The countdown has just expired into Playing and a paint of the three-line script
\* finds its range cut at the last line
C28_Witness ==
    /\ ev.op = "cd_tick"
    /\ ev.out = "play"
    /\ cd_val = None
    /\ ~cd_timer
    /\ text = ScriptPause
    /\ PaintRange(EnsureLayout, StartY) = 0 .. 2
    /\ LastIUnclamped(3, 0, EnsureLayout.font.line_h) > 3

\* C29: for every amplitude sample delivered while the microphone is running, the
\* auto-speed target is set to the manual speed if the amplitude exceeds the
\* threshold as currently configured (the value last set through the threshold
\* control), and to 0 otherwise.
C29_TargetFromCurrentThreshold ==
    [][\A r \in RmsInputs :
          AudioCallback(r) => mic_target' = MicTarget(r, mic_threshold, speed)]_vars

(***************************************************************************)
(* The clamp of the elapsed time                                           *)
(***************************************************************************)
\* Real gaps since the previous tick, in ms: none, a frame, a long stall
GapInputs == {0, 1, 16, 100, 5000}

\* The tick from the fields s after a gap of e ms moves the offset by at least
\* eff * 1 / 16.667 and at most eff * 100 / 16.667 px
AdvanceWithinClamp(s, e) ==
    LET r   == Tick(s, ClampDt(e))
        eff == EffSpeed(s.auto, r.smooth, s.spd)
    IN  /\ r.y - s.y >= eff * DtMin
        /\ r.y - s.y <= eff * DtMax

\* The same for the ticks that neither auto-pause nor end; the other ticks stay
\* within the upper bound
RunAdvanceWithinClamp(s, e) ==
    LET r   == Tick(s, ClampDt(e))
        eff == EffSpeed(s.auto, r.smooth, s.spd)
    IN  /\ r.y - s.y <= eff * DtMax
        /\ r.out = "run" => /\ r.y - s.y >= eff * DtMin
                            /\ \E dt \in DtMin .. DtMax : r.y - s.y = eff * dt
        /\ r.out = "pause" => r.y = PauseSnap(r.last_fl, s.lh)
        /\ r.out = "end" => r.y = s.total

\* C30 (as stated): the elapsed time used by a tick is clamped to [1, 100] ms, so a
\* single tick advances the scroll offset by at least effectiveSpeed * 1/16.667 and
\* at most effectiveSpeed * 100/16.667 pixels, however long the real gap since the
\* previous tick was.
C30_TickAdvanceClamped ==
    scroll_timer => \A e \in GapInputs : AdvanceWithinClamp(TickInput, e)

\* C30 (amended): the elapsed time used by a tick is clamped to [1, 100] ms,
\* however long the real gap was.  A tick that neither auto-pauses nor reaches the
\* end advances the scroll offset by effectiveSpeed * dt/16.667 with dt in [1, 100];
\* a tick that auto-pauses leaves the offset at the top of the Pause line and a tick
\* that reaches the end leaves it at the total height, in both cases no more than
\* effectiveSpeed * 100/16.667 pixels beyond the offset before the tick.
C30_RunAdvanceClamped ==
    scroll_timer => \A e \in GapInputs : RunAdvanceWithinClamp(TickInput, e)

\* A tick after a gap of 250 ms has just advanced a playing engine by exactly
\* speed * 100/16.667, and the next tick after a 5 s stall would do the same
C30_Witness ==
    /\ scroll_timer
    /\ ev = Event("scroll_step", "run")
    /\ scroll_y = speed * DtMax
    /\ Tick(TickInput, ClampDt(5000)).y = scroll_y + speed * DtMax
    /\ Tick(TickInput, ClampDt(0)).y = scroll_y + speed * DtMin

(***************************************************************************)
(* Properties of the wrapped paragraphs                                    *)
(***************************************************************************)
\* The words of the lines ls[a .. b], in order
RECURSIVE WordsOfLines(_, _, _)
WordsOfLines(ls, a, b) ==
    IF a > b THEN <<>> ELSE SplitWords(ls[a]) \o WordsOfLines(ls, a + 1, b)

\* The k-th raw line of raws is wrapped text: not empty and not the pause token
\* once its directives are removed
IsWrappedRaw(raw) ==
    Strip(NoteSub(raw)) # <<>> /\ Strip(NoteSub(raw)) # PAUSE_TAG

\* The lines l.lines[a .. b] (1-based) hold the words of para in order, none is
\* empty, and each break stands before a word that did not fit
ParaPreserved(l, W, para, a, b) ==
    /\ a <= b /\ b <= Len(l.lines)
    /\ WordsOfLines(l.lines, a, b) = SplitWords(para)
    /\ \A i \in a .. b :
          /\ SplitWords(l.lines[i]) # <<>>
          /\ l.lines[i] = JoinSp(SplitWords(l.lines[i]))
          /\ Len(l.word_xs[i]) = Len(SplitWords(l.lines[i]))
          /\ \A w \in 1 .. Len(l.word_xs[i]) : l.word_xs[i][w][1] = SplitWords(l.lines[i])[w]
    /\ \A i \in a .. (b - 1) :
          SumAdvance(SplitWords(l.lines[i]), l.font.fm)
              + l.font.sp_w * (Len(SplitWords(l.lines[i])) - 1)
              + l.font.sp_w + HorizontalAdvance(l.font.fm, SplitWords(l.lines[i + 1])[1])
            > W - 2 * Margin

\* Every wrapped paragraph of the script txt is preserved in the layout l
WordsPreserved(l, txt, W) ==
    LET raws == SplitOn(txt, "\n") IN
    \A k \in 1 .. Len(raws) :
        IsWrappedRaw(raws[k])
            => ParaPreserved(l, W, Strip(NoteSub(raws[k])),
                             FirstLineIndex(raws, k, l, W) + 1,
                             FirstLineIndex(raws, k, l, W) + LinesOfRaw(raws[k], l, W))

\* C31: wrapping preserves words: for every paragraph, concatenating the words of
\* its DisplayLines in order gives exactly the paragraph's whitespace-separated
\* words in original order, with no word split, dropped or duplicated, and a line
\* break is placed before a word only when adding that word (plus a space) to the
\* current line would exceed the maximum width.
C31_WordsPreserved == WordsPreserved(EnsureLayout, text, width)

\* The layout of "aaaa bbbb cccc dddd" at 48 pt in the 640 px window has been built:
\* three words on the first line, the fourth alone on the second
C31_Witness ==
    /\ text = ScriptWrap
    /\ width = 640
    /\ layout_key = <<text, width, FontKeyNow, text_align>>
    /\ Len(l_lines) = 2
    /\ Len(l_word_xs[1]) = 3
    /\ Len(l_word_xs[2]) = 1

\* The pause set of the layout l of the script txt holds exactly the first (and
\* only) line index of each raw line whose content is the pause token, and that
\* line is the token with no word offsets
PauseLinesExact(l, txt, W) ==
    LET raws   == SplitOn(txt, "\n")
        paused == {k \in 1 .. Len(raws) : Strip(NoteSub(raws[k])) = PAUSE_TAG}
    IN  /\ l.pause = {FirstLineIndex(raws, k, l, W) : k \in paused}
        /\ \A k \in paused :
              LET fi == FirstLineIndex(raws, k, l, W) IN
              /\ LinesOfRaw(raws[k], l, W) = 1
              /\ fi < Len(l.lines)
              /\ l.lines[fi + 1] = PAUSE_TAG
              /\ l.word_xs[fi + 1] = <<>>

\* C32: a raw line is a Pause line exactly when its content, after removing note
\* directives and trimming, equals the pause token [PAUSE]: such a line yields
\* exactly one DisplayLine with no word offsets whose index is in the pause set,
\* and no index enters the pause set in any other way (a pause token embedded in
\* other text is ordinary text).
C32_PauseLinesExact == PauseLinesExact(EnsureLayout, text, width)

\* The layout of "go [PAUSE] on\n[PAUSE] [[q]]" has been built: the first line
\* holds the token as a word and is no Pause line, the second is the Pause line
C32_Witness ==
    /\ text = ScriptInline
    /\ layout_key = <<text, width, FontKeyNow, text_align>>
    /\ l_pause = {Len(l_lines) - 1}
    /\ l_lines[Len(l_lines)] = PAUSE_TAG
    /\ l_word_xs[Len(l_lines)] = <<>>
    /\ \E w \in 1 .. Len(l_word_xs[1]) : l_word_xs[1][w][1] = PAUSE_TAG

(***************************************************************************)
(* Invariants of the caches and of the playback flags                      *)
(***************************************************************************)
\* C33: whenever the layout cache key is valid, the cached total content height
\* equals the number of DisplayLines x the current cached line height, and the
\* line height is >= 1 in every reachable state (so the focus-index division is
\* always defined).
C33_TotalIsLinesTimesHeight ==
    /\ f_line_h >= 1
    /\ EnsureFont.line_h >= 1
    /\ layout_key # <<>> => l_total = Len(l_lines) * f_line_h * YPerPx

\* After a change to the 16 pt font a tick has rebuilt both caches: the
\* three-line script has a smaller line height and a total of three such lines
C33_Witness ==
    /\ ev.op = "scroll_step"
    /\ layout_key # <<>>
    /\ font_size = 16
    /\ font_key = FontKeyNow
    /\ f_line_h < 86
    /\ Len(l_lines) = 3
    /\ l_total = 3 * f_line_h * YPerPx

\* C34: timers and playback flags stay consistent in every reachable state: the
\* scroll ticker is active exactly when playback is playing, the countdown timer
\* is active exactly when a countdown value is pending, and a pending countdown
\* and playing never hold at the same time.
C34_TimersConsistent ==
    /\ scroll_timer <=> is_playing
    /\ cd_timer <=> (cd_val # None)
    /\ ~(cd_val # None /\ is_playing)

\* A countdown that was pending with its timer running has expired: playback is
\* playing, the ticker runs, the countdown timer is stopped and no value is pending
C34_Witness ==
    /\ ev.op = "cd_tick"
    /\ ev.out = "play"
    /\ is_playing
    /\ scroll_timer
    /\ ~cd_timer
    /\ cd_val = None
    /\ countdown_secs = 3

(***************************************************************************)
(* Playing episodes in manual mode: a script with a Pause line or without, *)
(* play requests, countdowns, speed-down steps, forward skips and resets.  *)
(* No script replacement and no backward skip.  Both timers are Qt timers  *)
(* on the event loop: while active they fire.                              *)
(***************************************************************************)
EpisodeTexts == {ScriptPause, ScriptWrap}

InitEpisode ==
    \E t \in EpisodeTexts, cds \in {0, 1} :
        InitWith(t, SpeedMin + SpeedStep, cds, 16)

NextEpisode ==
    \/ TogglePlay
    \/ CdTick
    \/ ScenarioTick
    \/ SpeedDn
    \/ KeyRight
    \/ Reset

SpecEpisode ==
    /\ InitEpisode
    /\ [][NextEpisode]_vars
    /\ WF_vars(CdTick)
    /\ ScenarioTickFair

\* C35: with auto-speed disabled and the scroll ticker firing fairly, every
\* Playing episode ends after finitely many ticks: playback eventually leaves
\* Playing, and a tick that ends the episode does so by auto-pause or by reaching
\* the end of content (no script replacement or backward skip intervenes in
\* SpecEpisode).
C35_EpisodeEnds ==
    /\ (is_playing /\ ~auto_speed_enabled) ~> ~is_playing
    /\ [][(is_playing /\ ~is_playing' /\ ev'.op = "scroll_step")
            => ev'.out \in {"pause", "end"}]_vars

\* An episode resumed from the Pause line at the lowest speed has run to the end
\* of content
C35_Witness ==
    /\ ev = Event("scroll_step", "end")
    /\ text = ScriptPause
    /\ ~is_playing
    /\ speed = SpeedMin
    /\ last_fl = Len(l_lines)
    /\ scroll_y = l_total

ScriptPauseFirst == <<"[", "P", "A", "U", "S", "E", "]", "\n", "a", "b">>

ReplaceTexts == {ScriptNote, ScriptPauseFirst}

InitReplace == InitWith(ScriptPause, 2 * SpeedRes, 0, 48)

NextReplace ==
    \/ TogglePlay
    \/ ScrollStep(DtMax)
    \/ \E t \in ReplaceTexts : SetText(t)
    \/ Reset
    \/ PaintEvent

SpecReplace == InitReplace /\ [][NextReplace]_vars

\* C37: after set_text replaces the script, the first subsequent Playing tick
\* re-evaluates the focus line against the new layout, whatever focus-line index
\* was recorded before the replacement: if the focus line is a Pause line the
\* tick auto-pauses on it, otherwise the Notes window shows that line's note.
C37_FirstTickReevaluates ==
    [][(ev.op = "set_text" /\ is_playing /\ ev'.op = "scroll_step")
        => IF FocusLine(scroll_y', f_line_h') \in l_pause'
           THEN /\ ev'.out = "pause"
                /\ ~is_playing'
                /\ scroll_y' = PauseSnap(FocusLine(scroll_y', f_line_h'), f_line_h')
           ELSE nw_cur' = NoteAt(l_notes', FocusLine(scroll_y', f_line_h'))]_vars

(***************************************************************************)
(* The visible range of paintEvent as a function of the window height, the *)
(* focus ratio, the line height, the scroll offset and the number of lines *)
(***************************************************************************)
\* Lines 574-575 and 624-627: focus_y = int(H * focus_ratio),
\* start_y = focus_y - int(scroll_y), then <<first_i, last_i>>
RangeOf(H, ratio, lh, y, n) ==
    LET focus_y == (H * ratio) \div 100
        start_y == focus_y - (y \div YPerPx)
        first_i == FirstI(start_y, lh)
    IN  <<first_i, LastIOf(H, n, first_i, lh)>>

\* The range computation of one paintEvent for the geometry p_geom
RangeCompute ==
    /\ p_geom # None
    /\ p_range = None
    /\ p_range' = Some(RangeOf(p_geom[1].H, p_geom[1].ratio, p_geom[1].lh,
                               p_geom[1].y, p_geom[1].n))
    /\ UNCHANGED <<p_dist, p_alpha, p_geom, text, countdown_secs, playVars, speedVars,
                   styleVars, fontCache, layCache, notesVars, histVars>>

HeightInputs    == {1, 420, 560, 1080}     \* self.height()
RatioInputs     == {25, 50, 75}            \* focus_ratio: [0.25, 0.50, 0.75] (line 954)
LineHInputs     == {1, 28, 86, 216}        \* _f_line_h
ScrollPxInputs  == {0, 1, 27, 28, 86, 279, 280, 281, 1000, 5000, 86000}
LineCountInputs == {1, 3, 12, 100, 1000}   \* len(lines)

GeomInputs ==
    [H : HeightInputs, ratio : RatioInputs, lh : LineHInputs,
     y : {px * YPerPx + f : px \in ScrollPxInputs, f \in {0, YPerPx - 1}},
     n : LineCountInputs]

InitRange ==
    /\ InitState(ScriptPause, 2 * SpeedRes, 0, 48)
    /\ p_dist = None
    /\ p_alpha = None
    /\ p_geom \in {Some(g) : g \in GeomInputs}
    /\ p_range = None

NextRange == RangeCompute

SpecRange == InitRange /\ [][NextRange]_vars

\* Line i of the geometry g lies at least partly inside the viewport: its box
\* [y, y + lh) with y = start_y + i * lh meets [0, H)
Intersects(g, i) ==
    LET y == (g.H * g.ratio) \div 100 - (g.y \div YPerPx) + i * g.lh
    IN  y + g.lh > 0 /\ y < g.H

RangeSound(g, r) ==
    /\ \A i \in r[1] .. r[2] - 1 : 0 <= i /\ i < g.n
    /\ r[1] >= 0
    /\ r[2] <= g.n
    /\ r[2] - r[1] <= (g.H + 4 * g.lh) \div g.lh + 1
    /\ \A i \in 0 .. g.n - 1 : Intersects(g, i) => i \in r[1] .. r[2] - 1

\* C38: the arithmetically computed paint range [first_i, last_i) always lies
\* within the valid line indices, contains at most (H + 4 x lineHeight) div
\* lineHeight + 1 lines whatever the script length, and contains every line that
\* vertically intersects the viewport, for every scroll offset >= 0, viewport
\* height, focus ratio and line height >= 1.
C38_PaintRangeSound == p_range # None => RangeSound(p_geom[1], p_range[1])

\* A scrolled 1000-line script in the 560 px window: the range starts below line
\* 0, is cut by its size and not by the script's end, and holds visible lines
C38_Witness ==
    /\ p_range # None
    /\ p_geom[1].H = 560
    /\ p_geom[1].n = 1000
    /\ p_range[1][1] > 0
    /\ p_range[1][2] < 1000
    /\ p_range[1][2] - p_range[1][1] = (560 + 4 * p_geom[1].lh) \div p_geom[1].lh + 1
    /\ \E i \in p_range[1][1] .. p_range[1][2] - 1 : Intersects(p_geom[1], i)

(***************************************************************************)
(* Structure of a layout build                                             *)
(***************************************************************************)
\* The layout l of the script txt at width W: lines, word offsets, pause set and
\* note map fit together
LayoutConsistent(l, txt, W) ==
    LET raws == SplitOn(txt, "\n")
        n    == Len(l.lines)
    IN  /\ n >= 1
        /\ \A k \in 1 .. Len(raws) : LinesOfRaw(raws[k], l, W) >= 1
        /\ FirstLineIndex(raws, Len(raws) + 1, l, W) = n
        /\ Len(l.word_xs) = n
        /\ l.pause \subseteq 0 .. n - 1
        /\ DOMAIN l.notes \subseteq 0 .. n - 1

\* C39: every layout build yields a structurally consistent snapshot: at least
\* one DisplayLine, every raw script line contributes at least one DisplayLine,
\* the per-line word-offset list has the same length as the line list, and every
\* pause index and every note-map key is a valid line index.
C39_LayoutConsistent ==
    /\ LayoutConsistent(EnsureLayout, text, width)
    /\ layout_key # <<>> =>
          /\ Len(l_lines) >= 1
          /\ Len(l_word_xs) = Len(l_lines)
          /\ l_pause \subseteq 0 .. Len(l_lines) - 1
          /\ DOMAIN l_notes \subseteq 0 .. Len(l_lines) - 1

\* The cached layout of "go [PAUSE] on\n[PAUSE] [[q]]": two lines, the second a
\* Pause line that also carries the note
C39_Witness ==
    /\ text = ScriptInline
    /\ layout_key = <<text, width, FontKeyNow, text_align>>
    /\ Len(l_lines) = 2
    /\ Len(l_word_xs) = 2
    /\ l_pause = {1}
    /\ DOMAIN l_notes = {1}

====
